---- MODULE Spec2Model ----
(***************************************************************************)
(* A model of tilt's reconciliation controllers.                           *)
(*                                                                         *)
(*  - the process-server controller (ServerController, package local):     *)
(*    OnChange / determineServers / reconcile, running against the engine  *)
(*    store, whose Dispatch is asynchronous;                               *)
(*  - the owned-object reconciler (package configs): updateObjects.        *)
(***************************************************************************)
EXTENDS Integers, Sequences, FiniteSets, TLC

(***************************************************************************)
(* Bounds.                                                                 *)
(***************************************************************************)
\* The largest value ServerController.cmdCount may take in a run.
MaxCmds == 3
\* Deploy times are 0 (the zero time.Time) .. MaxTime.
MaxTime == 2
\* The largest number of dispatched actions the store has not yet reduced.
MaxQueue == 3
\* The largest number of times the controller is constructed anew.
MaxRestarts == 1
\* The largest resource version the object store hands out for one object.
MaxResourceVersion == 2
\* The most fetches in a row that the cache answers with "not started".
MaxNotStarted == 6
\* The most actions of the trigger-queue controller the store has not reduced.
MaxPending == 4
\* The latest time of a click, a file event or a build (0 is the zero time).
MaxClock == 3
\* The most events in the log of a file watch.
MaxEvents == 2
\* The most lookups of one call of a resolver that the client answers.
MaxLookups == 4

(***************************************************************************)
(* Process-server controller: values.                                      *)
(***************************************************************************)
\* The manifests of the engine state, in the order state.Targets() lists them.
ManifestOrder == <<"s1", "s2">>

Manifests == {ManifestOrder[i] : i \in 1..Len(ManifestOrder)}

\* The manifests whose target the environment changes; the others keep their
\* initial target, which has no serve command.
ChangingManifests == {"s1"}

\* model.Cmd of a local target, and the CmdSpec made of it: Argv (Dir, Env and
\* the readiness probe are folded into it).  An empty Argv is "no serve
\* command".
ServeCmdValues == { [args |-> a] : a \in {<<>>, <<"x">>, <<"y">>} }

Times == 0..MaxTime

NoName == <<"", 0>>

\* No entry in createdCmds.
NoCmd == [name |-> NoName, spec |-> [args |-> <<>>]]

\* CmdStatus: "running" stands for every status with Terminated == nil (the
\* zero CmdStatus included); "terminated" and "errored" are Terminated != nil
\* with a zero and a non-zero exit code.
CmdStatuses == {"running", "terminated", "errored"}

\* CmdStatus.Terminated != nil
IsTerminated(status) == status \in {"terminated", "errored"}

VARIABLES
    targets,            \* EngineState manifest targets: name -> serve cmd, deploy time
    cmds,               \* EngineState.Cmds: cmd name -> Cmd (owner reference, status)
    actions,            \* actions dispatched to the store and not yet reduced
    createdCmds,        \* ServerController.createdCmds (NoCmd: no entry)
    createdTriggerTime, \* ServerController.createdTriggerTime
    deletingCmds,       \* ServerController.deletingCmds
    cmdCount,           \* ServerController.cmdCount
    restarts,           \* how many times the controller was constructed anew
    changed,            \* manifest -> its target was modified since the last pass
    pass                \* report of the OnChange pass that just ran, or NoPass

serverVars == <<targets, cmds, actions, createdCmds, createdTriggerTime,
                deletingCmds, cmdCount, restarts, changed, pass>>

(***************************************************************************)
(* Process-server controller: determineServers.                            *)
(***************************************************************************)
\* The names of the Cmds of the store that carry an owner reference of kind
\* CmdServer to `name`.
OwnedBy(name) == {n \in DOMAIN cmds : cmds[n].owner = name}

\* The outcomes of the loop that fills ownedCmds: state.Cmds is a Go map, its
\* iteration order is unspecified, and the last Cmd visited for an owner name
\* wins.  NoName: no Cmd is owned by that name.
OwnedCmdsChoices ==
    { f \in [Manifests -> DOMAIN cmds \cup {NoName}] :
        \A m \in Manifests :
            IF OwnedBy(m) = {} THEN f[m] = NoName ELSE f[m] \in OwnedBy(m) }

\* mt.Manifest.IsLocal(): every manifest of the model is a local target.
IsLocal(m) == m \in Manifests

\* model.Cmd.Empty()
Empty(serveCmd) == Len(serveCmd.args) = 0

\* The CmdServer inferred for manifest m, with the status of its owned Cmd
\* (the zero CmdServerStatus when it owns none).
CmdServerOf(m, ownedCmds) ==
    [ name        |-> m,
      spec        |-> targets[m].serveCmd,
      triggerTime |-> targets[m].deployTime,
      cmdName     |-> ownedCmds[m],
      cmdStatus   |-> IF ownedCmds[m] = NoName THEN "running"
                      ELSE cmds[ownedCmds[m]].status ]

\* Whether determineServers lists a CmdServer for manifest m.
IsServer(m) ==
    /\ IsLocal(m)
    /\ ~Empty(targets[m].serveCmd)
    /\ targets[m].deployTime # 0

\* The loop of lines 76-109 without the `continue` of lines 81-84: a
\* CmdServer is listed for every local manifest.
RECURSIVE serversFromEveryManifest(_, _)
serversFromEveryManifest(i, ownedCmds) ==
    IF i > Len(ManifestOrder) THEN <<>>
    ELSE LET m == ManifestOrder[i]
         IN  (IF IsLocal(m) THEN <<CmdServerOf(m, ownedCmds)>> ELSE <<>>)
             \o serversFromEveryManifest(i + 1, ownedCmds)

RECURSIVE serversFrom(_, _)
serversFrom(i, ownedCmds) ==
    IF i > Len(ManifestOrder) THEN <<>>
    ELSE LET m == ManifestOrder[i]
         IN  (IF IsServer(m) THEN <<CmdServerOf(m, ownedCmds)>> ELSE <<>>)
             \o serversFrom(i + 1, ownedCmds)

determineServers(ownedCmds) == serversFrom(1, ownedCmds)

(***************************************************************************)
(* Process-server controller: reconcile.                                   *)
(***************************************************************************)
\* equality.Semantic.DeepEqual(created.Spec, cmdSpec)
SemanticDeepEqual(a, b) == a.args = b.args

\* fmt.Sprintf("%s-serve-%d", name, c.cmdCount)
CmdNameOf(name, count) == <<name, count>>

\* The Cmd of a CmdCreateAction, as the store keeps it: its name and its owner
\* reference (its spec is the one createdCmds records under the owner's name).
CmdCreateAction(name, cmd) ==
    [type |-> "CmdCreateAction", name |-> cmd.name, owner |-> name]

CmdDeleteAction(cmdName) ==
    [type |-> "CmdDeleteAction", name |-> cmdName, owner |-> ""]

\* The controller's fields as one value, threaded through the reconciles of a pass.
Controller ==
    [ createdCmds        |-> createdCmds,
      createdTriggerTime |-> createdTriggerTime,
      deletingCmds       |-> deletingCmds,
      cmdCount           |-> cmdCount ]

\* "Start the command!" without the c.cmdCount++ of line 149: the name is
\* numbered, the counter is left as it was.
startCmdWithoutIncrement(c, server) ==
    LET name  == server.name
        count == c.cmdCount + 1
        cmd   == [name |-> CmdNameOf(name, count), spec |-> server.spec]
    IN  [ c   |-> [c EXCEPT !.createdTriggerTime[name] = server.triggerTime,
                            !.deletingCmds[name] = FALSE,
                            !.createdCmds[name] = cmd],
          out |-> <<CmdCreateAction(name, cmd)>> ]

\* Lines 146-173: "Start the command!"
startCmd(c, server) ==
    LET name  == server.name
        count == c.cmdCount + 1
        cmd   == [name |-> CmdNameOf(name, count), spec |-> server.spec]
    IN  [ c   |-> [c EXCEPT !.createdTriggerTime[name] = server.triggerTime,
                            !.deletingCmds[name] = FALSE,
                            !.cmdCount = count,
                            !.createdCmds[name] = cmd],
          out |-> <<CmdCreateAction(name, cmd)>> ]

\* Lines 137-144: the listed Cmd is not terminated.
deleteCmd(c, server) ==
    IF ~c.deletingCmds[server.name]
    THEN [ c   |-> [c EXCEPT !.deletingCmds[server.name] = TRUE],
           out |-> <<CmdDeleteAction(server.cmdName)>> ]
    ELSE [c |-> c, out |-> <<>>]

\* The check of line 125 holding only while the listed Cmd is not terminal.
upToDateWhileRunning(c, server) ==
    /\ c.createdCmds[server.name] # NoCmd
    /\ SemanticDeepEqual(c.createdCmds[server.name].spec, server.spec)
    /\ c.createdTriggerTime[server.name] = server.triggerTime
    /\ ~IsTerminated(server.cmdStatus)

\* The check of line 125 without triggerTime.Equal: specs alone are compared.
upToDateIgnoringTriggerTime(c, server) ==
    /\ c.createdCmds[server.name] # NoCmd
    /\ SemanticDeepEqual(c.createdCmds[server.name].spec, server.spec)

\* Line 125: the created Cmd has the desired spec and trigger time.
upToDate(c, server) ==
    /\ c.createdCmds[server.name] # NoCmd
    /\ SemanticDeepEqual(c.createdCmds[server.name].spec, server.spec)
    /\ c.createdTriggerTime[server.name] = server.triggerTime

\* reconcile without the early return of line 127: an up-to-date server falls
\* through to the checks below.
reconcileNoReturn(c, server) ==
    LET isCreated == c.createdCmds[server.name] # NoCmd
    IN  IF isCreated /\ server.cmdName = NoName
        THEN [c |-> c, out |-> <<>>]
        ELSE IF isCreated /\ ~IsTerminated(server.cmdStatus)
        THEN deleteCmd(c, server)
        ELSE startCmd(c, server)

\* reconcile whose wait of line 133 lacks `isCreated &&`: it also waits for a
\* Cmd to appear when none was created.
reconcileWaitsUncreated(c, server) ==
    LET isCreated == c.createdCmds[server.name] # NoCmd
    IN  IF upToDate(c, server)
        THEN [c |-> c, out |-> <<>>]
        ELSE IF server.cmdName = NoName
        THEN [c |-> c, out |-> <<>>]
        ELSE IF isCreated /\ ~IsTerminated(server.cmdStatus)
        THEN deleteCmd(c, server)
        ELSE startCmd(c, server)

\* reconcile whose check of line 138 takes an errored Cmd (Terminated with a
\* non-zero exit code) as still running.
reconcileDeletesErrored(c, server) ==
    LET isCreated == c.createdCmds[server.name] # NoCmd
    IN  IF upToDate(c, server)
        THEN [c |-> c, out |-> <<>>]
        ELSE IF isCreated /\ server.cmdName = NoName
        THEN [c |-> c, out |-> <<>>]
        ELSE IF isCreated /\ server.cmdStatus # "terminated"
        THEN deleteCmd(c, server)
        ELSE startCmd(c, server)

\* reconcile without the wait of lines 133-135: a created Cmd that the
\* listing does not report yet is handled as a running one.
reconcileWithoutWait(c, server) ==
    LET isCreated == c.createdCmds[server.name] # NoCmd
    IN  IF upToDate(c, server)
        THEN [c |-> c, out |-> <<>>]
        ELSE IF isCreated /\ ~IsTerminated(server.cmdStatus)
        THEN deleteCmd(c, server)
        ELSE startCmd(c, server)

\* One call of reconcile: the controller after it, and what it dispatched.
reconcile(c, server) ==
    LET isCreated == c.createdCmds[server.name] # NoCmd
    IN  IF upToDate(c, server)
        THEN [c |-> c, out |-> <<>>]
        ELSE IF isCreated /\ server.cmdName = NoName
        THEN [c |-> c, out |-> <<>>]
        ELSE IF isCreated /\ ~IsTerminated(server.cmdStatus)
        THEN deleteCmd(c, server)
        ELSE startCmd(c, server)

NoOut == [m \in Manifests |-> <<>>]

\* The loop of OnChange over the servers, from the i-th on: the controller
\* after it, and what each reconcile dispatched (by server name).
RECURSIVE reconcileFrom(_, _, _, _)
reconcileFrom(i, servers, c, out) ==
    IF i > Len(servers) THEN [c |-> c, out |-> out]
    ELSE LET r == reconcile(c, servers[i])
         IN  reconcileFrom(i + 1, servers, r.c,
                           [out EXCEPT ![servers[i].name] = r.out])

\* What a pass dispatched, in dispatch order.
RECURSIVE flatten(_, _)
flatten(i, out) ==
    IF i > Len(ManifestOrder) THEN <<>>
    ELSE out[ManifestOrder[i]] \o flatten(i + 1, out)

\* NewServerController: empty maps, counter zero.
NewServerController ==
    [ createdCmds        |-> [m \in Manifests |-> NoCmd],
      createdTriggerTime |-> [m \in Manifests |-> 0],
      deletingCmds       |-> [m \in Manifests |-> FALSE],
      cmdCount           |-> 0 ]

\* One "Dispatch" step for each action of a sequence: st.Dispatch.
DispatchSteps(out) == [i \in 1..Len(out) |-> "Dispatch"]

\* determineServers, lines 56-57: the read lock is taken, and released by the
\* deferred RUnlockState when determineServers returns.
determineServersSteps == <<"RLockState", "RUnlockState">>

NoPass ==
    [ ran       |-> FALSE,
      ownedCmds |-> [m \in Manifests |-> NoName],
      before    |-> NewServerController,
      unchanged |-> [m \in Manifests |-> FALSE],
      out       |-> NoOut,
      steps     |-> <<>> ]

(***************************************************************************)
(* Process-server controller: the actions.                                 *)
(***************************************************************************)
\* A new controller, against a store that holds the manifests and no Cmd.
ServerInit ==
    /\ targets = [m \in Manifests |-> [serveCmd |-> [args |-> <<>>],
                                        deployTime |-> 0]]
    /\ cmds = << >>
    /\ actions = << >>
    /\ createdCmds = NewServerController.createdCmds
    /\ createdTriggerTime = NewServerController.createdTriggerTime
    /\ deletingCmds = NewServerController.deletingCmds
    /\ cmdCount = NewServerController.cmdCount
    /\ restarts = 0
    /\ changed = [m \in Manifests |-> TRUE]
    /\ pass = NoPass

\* ServerController.OnChange: one pass.  `pass` keeps what the pass saw (the
\* listing outcome, the controller before it, whether a target changed since
\* the pass before) and what it dispatched for each server.
OnChange(ownedCmds) ==
    LET r == reconcileFrom(1, determineServers(ownedCmds), Controller, NoOut)
    IN  /\ r.c.cmdCount <= MaxCmds
        /\ Len(actions) + Len(flatten(1, r.out)) <= MaxQueue
        /\ createdCmds' = r.c.createdCmds
        /\ createdTriggerTime' = r.c.createdTriggerTime
        /\ deletingCmds' = r.c.deletingCmds
        /\ cmdCount' = r.c.cmdCount
        /\ actions' = actions \o flatten(1, r.out)
        /\ changed' = [m \in Manifests |-> FALSE]
        /\ pass' = [ ran       |-> TRUE,
                     ownedCmds |-> ownedCmds,
                     before    |-> Controller,
                     unchanged |-> [m \in Manifests |-> ~changed[m]],
                     out       |-> r.out,
                     steps     |-> determineServersSteps
                                       \o DispatchSteps(flatten(1, r.out)) ]
        /\ UNCHANGED <<targets, cmds, restarts>>

\* ServerController.OnChange with a log-only summary: returns at once.
OnChangeLogOnly == UNCHANGED serverVars

\* The desired state changes: a Tiltfile reload changes a serve command, a
\* finished deploy changes LastSuccessfulDeployTime.
SetManifest(m, serveCmd, deployTime) ==
    /\ targets[m] # [serveCmd |-> serveCmd, deployTime |-> deployTime]
    /\ targets' = [targets EXCEPT ![m] = [serveCmd |-> serveCmd,
                                          deployTime |-> deployTime]]
    /\ changed' = [changed EXCEPT ![m] = TRUE]
    /\ pass' = NoPass
    /\ UNCHANGED <<cmds, actions, createdCmds, createdTriggerTime,
                   deletingCmds, cmdCount, restarts>>

cmdsWith(name, cmd) ==
    [n \in DOMAIN cmds \cup {name} |-> IF n = name THEN cmd ELSE cmds[n]]

\* The store reduces the oldest dispatched action, a CmdCreateAction: the Cmd
\* is stored under its name, with the zero status.
ReduceCreate ==
    /\ actions # << >>
    /\ Head(actions).type = "CmdCreateAction"
    /\ cmds' = cmdsWith(Head(actions).name,
                        [owner  |-> Head(actions).owner,
                         status |-> "running"])
    /\ actions' = Tail(actions)
    /\ pass' = NoPass
    /\ UNCHANGED <<targets, createdCmds, createdTriggerTime, deletingCmds,
                   cmdCount, restarts, changed>>

\* The store reduces the oldest dispatched action, a CmdDeleteAction: the
\* Cmd's process is stopped and the Cmd reports a terminal status.
ReduceDelete ==
    /\ actions # << >>
    /\ Head(actions).type = "CmdDeleteAction"
    /\ LET name == Head(actions).name
       IN  cmds' = IF name \notin DOMAIN cmds THEN cmds
                   ELSE IF IsTerminated(cmds[name].status) THEN cmds
                   ELSE cmdsWith(name, [cmds[name] EXCEPT !.status = "terminated"])
    /\ actions' = Tail(actions)
    /\ pass' = NoPass
    /\ UNCHANGED <<targets, createdCmds, createdTriggerTime, deletingCmds,
                   cmdCount, restarts, changed>>

\* A Cmd's process ends on its own, with exit code zero or with an error.
CmdExits(name, status) ==
    /\ name \in DOMAIN cmds
    /\ ~IsTerminated(cmds[name].status)
    /\ IsTerminated(status)
    /\ cmds' = cmdsWith(name, [cmds[name] EXCEPT !.status = status])
    /\ pass' = NoPass
    /\ UNCHANGED <<targets, actions, createdCmds, createdTriggerTime,
                   deletingCmds, cmdCount, restarts, changed>>

\* The controller is constructed anew (NewServerController) while the store
\* keeps its state.
Restart ==
    /\ restarts < MaxRestarts
    /\ restarts' = restarts + 1
    /\ createdCmds' = NewServerController.createdCmds
    /\ createdTriggerTime' = NewServerController.createdTriggerTime
    /\ deletingCmds' = NewServerController.deletingCmds
    /\ cmdCount' = NewServerController.cmdCount
    /\ changed' = [m \in Manifests |-> TRUE]
    /\ pass' = NoPass
    /\ UNCHANGED <<targets, cmds, actions>>

(***************************************************************************)
(* Owned-object reconciler: values.                                        *)
(***************************************************************************)
\* The (kind, name) pairs of the model: two kinds, one of them with two names.
Keys == { <<"KubernetesApply", "a">>, <<"KubernetesApply", "b">>,
          <<"ImageMap", "a">> }

\* The order in which the loops visit the entries.  Go leaves the order of a
\* map iteration open; every call is on an entry of its own, so the calls of
\* a pass and their outcomes do not depend on it.
KeyOrder == << <<"ImageMap", "a">>, <<"KubernetesApply", "a">>,
               <<"KubernetesApply", "b">> >>

ObjSpecs == {"p", "q"}

\* No object under a key (a nil object, a name missing from a typedObjectSet).
NoObject == [spec |-> "", resourceVersion |-> 0, owned |-> FALSE]

\* An object generated from the Tiltfile: it carries the owner label and no
\* resource version yet.
TiltfileObject(spec) == [spec |-> spec, resourceVersion |-> 0, owned |-> TRUE]

VARIABLES
    apiObjects,   \* the objects the Tiltfile generates (toAPIObjects): key -> object
    apiserver,    \* the objects of the typed object store: key -> object
    objPass       \* report of the updateOwnedObjects pass that just ran, or NoObjPass

objVars == <<apiObjects, apiserver, objPass>>

(***************************************************************************)
(* Owned-object reconciler: getExistingAPIObjects and updateObjects.       *)
(***************************************************************************)
\* client.List without the label selector: every stored object.
getExistingAPIObjectsUnscoped == apiserver

\* client.List with LabelSelector ownerSelector, for every kind: the stored
\* objects that carry the owner label.
getExistingAPIObjects ==
    [k \in Keys |-> IF apiserver[k] # NoObject /\ apiserver[k].owned
                     THEN apiserver[k] ELSE NoObject]

\* apicmp.DeepEqual on two specs.
apicmpDeepEqual(x, y) == x = y

Call(op, key, obj) == [op |-> op, key |-> key, obj |-> obj]

\* The body of the upsert loop for one entry of newObjects, comparing whole
\* objects (metadata included) in place of their specs.
upsertComparingObjects(key, obj, old) ==
    IF old = NoObject
    THEN <<Call("create", key, obj)>>
    ELSE IF ~apicmpDeepEqual(old, obj)
    THEN <<Call("update", key, [obj EXCEPT !.resourceVersion = old.resourceVersion])>>
    ELSE <<>>

\* The body of the upsert loop for one entry of newObjects, updating every
\* object that exists.
upsertAlwaysUpdating(key, obj, old) ==
    IF old = NoObject
    THEN <<Call("create", key, obj)>>
    ELSE <<Call("update", key, [obj EXCEPT !.resourceVersion = old.resourceVersion])>>

\* The body of the upsert loop without the SetResourceVersion of line 209:
\* the update carries the object as the Tiltfile generated it.
upsertWithoutResourceVersion(key, obj, old) ==
    IF old = NoObject
    THEN <<Call("create", key, obj)>>
    ELSE IF ~apicmpDeepEqual(old.spec, obj.spec)
    THEN <<Call("update", key, obj)>>
    ELSE <<>>

\* Lines 191-215: the body of the upsert loop for one entry of newObjects;
\* `old` is the entry of oldObjects under the same kind and name, or nil.
upsert(key, obj, old) ==
    IF old = NoObject
    THEN <<Call("create", key, obj)>>
    ELSE IF ~apicmpDeepEqual(old.spec, obj.spec)
    THEN <<Call("update", key, [obj EXCEPT !.resourceVersion = old.resourceVersion])>>
    ELSE <<>>

\* The body of the delete loop with the `continue` of line 226 taken for
\* every entry: nothing is deleted.
deleteStaleNever(key, obj, new) == <<>>

\* The body of the delete loop without the `continue` of line 226.
deleteStaleAlways(key, obj, new) == <<Call("delete", key, obj)>>

\* Lines 221-233: the body of the delete loop for one entry of oldObjects;
\* `new` is the entry of newObjects under the same kind and name, or nil.
deleteStale(key, obj, new) ==
    IF new # NoObject THEN <<>> ELSE <<Call("delete", key, obj)>>

\* The calls of the upsert loop over newObjects, from the i-th key on.
RECURSIVE upsertsFrom(_, _, _)
upsertsFrom(i, newObjects, oldObjects) ==
    IF i > Len(KeyOrder) THEN <<>>
    ELSE LET k == KeyOrder[i]
         IN  (IF newObjects[k] = NoObject THEN <<>>
              ELSE upsert(k, newObjects[k], oldObjects[k]))
             \o upsertsFrom(i + 1, newObjects, oldObjects)

\* The calls of the delete loop over oldObjects, from the i-th key on.
RECURSIVE deletesFrom(_, _, _)
deletesFrom(i, newObjects, oldObjects) ==
    IF i > Len(KeyOrder) THEN <<>>
    ELSE LET k == KeyOrder[i]
         IN  (IF oldObjects[k] = NoObject THEN <<>>
              ELSE deleteStale(k, oldObjects[k], newObjects[k]))
             \o deletesFrom(i + 1, newObjects, oldObjects)

\* errors.NewAggregate: nil for an empty list.
NewAggregate(errs) == [isNil |-> errs = <<>>, errors |-> errs]

\* fmt.Errorf("create %s/%s: %v", ...): the error appended for a failed call.
CallError(call) == [op |-> call.op, key |-> call.key]

\* The errors appended for the calls that failed, in call order.
RECURSIVE errorsOf(_, _, _)
errorsOf(i, calls, failing) ==
    IF i > Len(calls) THEN <<>>
    ELSE (IF calls[i].key \in failing THEN <<CallError(calls[i])>> ELSE <<>>)
         \o errorsOf(i + 1, calls, failing)

\* updateObjects that returns at the first failed call.
RECURSIVE callsUntilFailure(_, _, _)
callsUntilFailure(i, calls, failing) ==
    IF i > Len(calls) THEN <<>>
    ELSE IF calls[i].key \in failing THEN <<calls[i]>>
    ELSE <<calls[i]>> \o callsUntilFailure(i + 1, calls, failing)

updateObjectsStoppingAtError(newObjects, oldObjects, failing) ==
    LET all   == upsertsFrom(1, newObjects, oldObjects)
                 \o deletesFrom(1, newObjects, oldObjects)
        calls == callsUntilFailure(1, all, failing)
    IN  [calls |-> calls, err |-> NewAggregate(errorsOf(1, calls, failing))]

\* updateObjects: the calls it makes on the client, in order, and the error
\* it returns; the calls on the keys in `failing` return an error.
updateObjects(newObjects, oldObjects, failing) ==
    LET calls == upsertsFrom(1, newObjects, oldObjects)
                 \o deletesFrom(1, newObjects, oldObjects)
    IN  [calls |-> calls, err |-> NewAggregate(errorsOf(1, calls, failing))]

(***************************************************************************)
(* Owned-object reconciler: the object store and the actions.              *)
(***************************************************************************)
\* The object the store holds under call.key after a successful call.
stored(store, call) ==
    IF call.op = "create"
    THEN [call.obj EXCEPT !.resourceVersion = 1]
    ELSE IF call.op = "update"
    THEN [call.obj EXCEPT !.resourceVersion = call.obj.resourceVersion + 1]
    ELSE NoObject

\* The store after the calls that succeeded, from the i-th call on.
RECURSIVE applyCalls(_, _, _, _)
applyCalls(i, calls, failing, store) ==
    IF i > Len(calls) THEN store
    ELSE applyCalls(i + 1, calls, failing,
             IF calls[i].key \in failing THEN store
             ELSE [store EXCEPT ![calls[i].key] = stored(store, calls[i])])

\* A create of an object whose kind and name the store holds already fails.
MustFail(call) == call.op = "create" /\ apiserver[call.key] # NoObject

(***************************************************************************)
(* Owned-object reconciler: the fetch loop of updateOwnedObjects.          *)
(***************************************************************************)
\* Line 57: retryCount < 5
MaxRetryCount == 5

\* Line 59: time.Sleep(200 * time.Millisecond), in milliseconds.
RetrySleep == 200

\* What one call of getExistingAPIObjects returns as its error: nil ("ok"),
\* *cache.ErrCacheNotStarted, or another error of client.List.
FetchOutcomes == {"ok", "ErrCacheNotStarted", "other"}

\* The outcome of the i-th fetch of a pass during which the cache answers
\* "not started" to the first `notStarted` fetches, `next` to the one after
\* them, and is in order from then on.
fetchOutcome(i, notStarted, next) ==
    IF i <= notStarted THEN "ErrCacheNotStarted"
    ELSE IF i = notStarted + 1 THEN next
    ELSE "ok"

\* The condition of line 57 that retries every error.
shouldRetryAnyError(err, retryCount) == retryCount < MaxRetryCount

\* The condition of line 57 without the bound on retryCount.
shouldRetryUnbounded(err, retryCount) == err = "ErrCacheNotStarted"

\* Line 57: the fetch is tried again.
shouldRetry(err, retryCount) ==
    err = "ErrCacheNotStarted" /\ retryCount < MaxRetryCount

\* Lines 54-65: the loop, after retryCount retries; `log` holds the outcomes
\* of the fetches made so far.  It ends with the error the pass returns at
\* line 62, or with "ok" when the actual set was fetched.
RECURSIVE fetchLoop(_, _, _, _)
fetchLoop(retryCount, log, notStarted, next) ==
    LET err  == fetchOutcome(Len(log) + 1, notStarted, next)
        seen == Append(log, err)
    IN  IF err # "ok" /\ shouldRetry(err, retryCount)
        THEN fetchLoop(retryCount + 1, seen, notStarted, next)
        ELSE [ err        |-> err,
               retryCount |-> retryCount,
               slept      |-> retryCount * RetrySleep,
               log        |-> seen ]

NoObjPass ==
    [ ran        |-> FALSE,
      before     |-> [k \in Keys |-> NoObject],
      fetch      |-> [err |-> "ok", retryCount |-> 0, slept |-> 0, log |-> <<>>],
      oldObjects |-> [k \in Keys |-> NoObject],
      failing    |-> {},
      calls      |-> <<>>,
      err        |-> NewAggregate(<<>>),
      afterCalls |-> -1,
      afterFailed |-> -1 ]

ObjInit ==
    /\ apiObjects = [k \in Keys |-> NoObject]
    /\ apiserver = [k \in Keys |-> NoObject]
    /\ objPass = NoObjPass

\* updateOwnedObjects: one pass.  The cache answers the fetches as
\* fetchOutcome(_, notStarted, next) says, and the calls on the keys in
\* `failing` fail.  objPass keeps the store the pass found, its fetches, the
\* actual set it fetched, its calls and its result; `ran` says that
\* updateObjects was reached (line 66); afterCalls is the number of calls of
\* the pass right before this one when that pass ended without error and
\* nothing changed since, and -1 otherwise; afterFailed is the number of
\* calls that succeeded in the pass right before this one when that pass
\* ended with an error and nothing changed since, and -1 otherwise.
UpdateOwnedObjects(failing, notStarted, next) ==
    LET fetch      == fetchLoop(0, <<>>, notStarted, next)
        oldObjects == getExistingAPIObjects
        r          == updateObjects(apiObjects, oldObjects, failing)
    IN  IF fetch.err # "ok"
        THEN /\ failing = {}
             /\ objPass' = [NoObjPass EXCEPT !.before = apiserver, !.fetch = fetch]
             /\ UNCHANGED <<apiObjects, apiserver>>
        ELSE /\ \A i \in DOMAIN r.calls :
                    /\ MustFail(r.calls[i]) => r.calls[i].key \in failing
                    /\ r.calls[i].obj.resourceVersion < MaxResourceVersion
             /\ failing \subseteq {r.calls[i].key : i \in DOMAIN r.calls}
             /\ apiserver' = applyCalls(1, r.calls, failing, apiserver)
             /\ objPass' = [ ran        |-> TRUE,
                             before     |-> apiserver,
                             fetch      |-> fetch,
                             oldObjects |-> oldObjects,
                             failing    |-> failing,
                             calls      |-> r.calls,
                             err        |-> r.err,
                             afterCalls |-> IF objPass.ran /\ objPass.err.isNil
                                            THEN Len(objPass.calls) ELSE -1,
                             afterFailed |-> IF objPass.ran /\ ~objPass.err.isNil
                                             THEN Len(objPass.calls)
                                                      - Len(objPass.err.errors)
                                             ELSE -1 ]
             /\ UNCHANGED apiObjects

\* The Tiltfile is loaded again and generates another object set.
TiltfileChanges(key, obj) ==
    /\ apiObjects[key] # obj
    /\ apiObjects' = [apiObjects EXCEPT ![key] = obj]
    /\ objPass' = NoObjPass
    /\ UNCHANGED apiserver

\* Someone else creates or deletes an object without the owner label.
UnownedObjectChanges(key) ==
    /\ apiserver[key] = NoObject \/ ~apiserver[key].owned
    /\ apiserver' = [apiserver EXCEPT ![key] =
                         IF apiserver[key] = NoObject
                         THEN [spec |-> "p", resourceVersion |-> 1, owned |-> FALSE]
                         ELSE NoObject]
    /\ objPass' = NoObjPass
    /\ UNCHANGED apiObjects

(***************************************************************************)
(* Trigger-queue controller: values.                                       *)
(***************************************************************************)
\* The manifests that get queued.
QueueManifests == {"a", "b"}

\* The manifests that a Tiltfile reload drops or brings back; the others stay.
DroppedManifests == {"a"}

\* model.BuildReason of a manifest state: no trigger, triggered from the CLI,
\* triggered from the web UI.
BuildReasons == {"none", "cli", "web"}

\* state.ManifestState(v) finds no manifest.
NoManifestState == "absent"

\* state.UIResources has no entry.
NoUIResource == [present |-> FALSE, disabledCount |-> 0]

UIResource(disabledCount) == [present |-> TRUE, disabledCount |-> disabledCount]

\* A nil *ConfigMap.
NoConfigMap == [isNil |-> TRUE, data |-> << >>]

\* The ConfigMap named configmap.TriggerQueueName with this Data.
ConfigMap(data) == [isNil |-> FALSE, data |-> data]

VARIABLES
    triggerQueue,   \* EngineState.TriggerQueue: manifest names, in queue order
    manifestStates, \* manifest name -> TriggerReason of its state, or NoManifestState
    uiResources,    \* EngineState.UIResources: manifest name -> UIResource
    queueActions,   \* actions the controller dispatched, not yet reduced
    lastUpdate,     \* TriggerQueueSubscriber.lastUpdate
    configMap,      \* the trigger-queue ConfigMap of the object store
    queuePass       \* report of the OnChange pass that just ran, or NoQueuePass

queueVars == <<triggerQueue, manifestStates, uiResources, queueActions,
               lastUpdate, configMap, queuePass>>

(***************************************************************************)
(* Trigger-queue controller: removeDisabledManifests and fromState.        *)
(***************************************************************************)
\* store.NewLogAction(mn, spanID, logger.InfoLvl, nil, msg)
LogAction(mn) == [type |-> "LogAction", name |-> mn]

RemoveFromTriggerQueueAction(mn) ==
    [type |-> "RemoveFromTriggerQueueAction", name |-> mn]

\* The test of lines 322-323 without the one on DisabledCount.
isDisabledIgnoringCount(mn) == uiResources[mn].present

\* Lines 322-323: the manifest has a UIResource whose DisabledCount is > 0.
isDisabled(mn) ==
    uiResources[mn].present /\ uiResources[mn].disabledCount > 0

\* removeDisabledManifests leaving the loop after the first disabled entry.
RECURSIVE removeDisabledManifestsFirstOnly(_)
removeDisabledManifestsFirstOnly(i) ==
    IF i > Len(triggerQueue) THEN <<>>
    ELSE LET mn == triggerQueue[i]
         IN  IF isDisabled(mn)
             THEN <<LogAction(mn), RemoveFromTriggerQueueAction(mn)>>
             ELSE removeDisabledManifestsFirstOnly(i + 1)

\* removeDisabledManifests without the Dispatch of line 328: the notification
\* is logged, no removal is requested.
RECURSIVE removeDisabledManifestsLogOnly(_)
removeDisabledManifestsLogOnly(i) ==
    IF i > Len(triggerQueue) THEN <<>>
    ELSE LET mn == triggerQueue[i]
         IN  (IF isDisabled(mn) THEN <<LogAction(mn)>> ELSE <<>>)
             \o removeDisabledManifestsLogOnly(i + 1)

\* removeDisabledManifests: what it dispatches for the queue from the i-th
\* entry on, in dispatch order.
RECURSIVE removeDisabledManifests(_)
removeDisabledManifests(i) ==
    IF i > Len(triggerQueue) THEN <<>>
    ELSE LET mn == triggerQueue[i]
         IN  (IF isDisabled(mn)
              THEN <<LogAction(mn), RemoveFromTriggerQueueAction(mn)>>
              ELSE <<>>)
             \o removeDisabledManifests(i + 1)

\* The name key with positions counted from 1.
NameKeyFromOne(i) == <<i + 1, "name">>

\* fmt.Sprintf("%d-name", i) and fmt.Sprintf("%d-reason-code", i)
NameKey(i) == <<i, "name">>
ReasonCodeKey(i) == <<i, "reason-code">>

\* The loop of lines 277-285 leaving out the manifests that are disabled.
RECURSIVE fromStateSkippingDisabled(_, _)
fromStateSkippingDisabled(i, data) ==
    IF i >= Len(triggerQueue) THEN data
    ELSE LET v == triggerQueue[i + 1]
         IN  fromStateSkippingDisabled(i + 1,
                 IF isDisabled(v) THEN data ELSE (NameKey(i) :> v) @@ data)

\* Lines 277-285: cm.Data after the loop over the queue from 0-based
\* position i on, `data` being cm.Data before.
RECURSIVE fromStateFrom(_, _)
fromStateFrom(i, data) ==
    IF i >= Len(triggerQueue) THEN data
    ELSE LET v      == triggerQueue[i + 1]
             named  == (NameKey(i) :> v) @@ data
         IN  fromStateFrom(i + 1,
                 IF manifestStates[v] = NoManifestState THEN named
                 ELSE (ReasonCodeKey(i) :> manifestStates[v]) @@ named)

\* fromState: the ConfigMap built from the queue.
fromState == ConfigMap(fromStateFrom(0, << >>))

(***************************************************************************)
(* Trigger-queue controller: the actions.                                  *)
(***************************************************************************)
\* controllerutil.CreateOrUpdate: what it does with the stored ConfigMap.
CreateOrUpdate(cm) ==
    IF configMap.isNil THEN "created"
    ELSE IF configMap.data = cm.data THEN "unchanged"
    ELSE "updated"

\* OnChange that publishes whatever it last published.
skipsPublishNever(cm) == FALSE

\* Line 299: the ConfigMap built is the one last published.
skipsPublish(cm) ==
    ~lastUpdate.isNil /\ cm.data = lastUpdate.data

\* removeDisabledManifests, lines 318-319: the read lock is taken, the
\* actions of `out` are dispatched inside the loop, and the deferred
\* RUnlockState runs when the function returns.
removeDisabledManifestsSteps(out) ==
    <<"RLockState">> \o DispatchSteps(out) \o <<"RUnlockState">>

\* fromState with the read lock kept until OnChange returns.
fromStateStepsKeepingLock == <<"RLockState">>

\* fromState, lines 267-268: the read lock is taken, and released by the
\* deferred RUnlockState when fromState returns.
fromStateSteps == <<"RLockState", "RUnlockState">>

\* The steps of a pass of TriggerQueueSubscriber.OnChange that dispatches
\* `out` and ends with `result`: lines 296, 298 and 306.
queueSteps(out, result) ==
    removeDisabledManifestsSteps(out) \o fromStateSteps
        \o (IF result = "skipped" THEN <<>> ELSE <<"CreateOrUpdate">>)

NoQueuePass ==
    [ ran        |-> FALSE,
      steps      |-> <<>>,
      out        |-> <<>>,
      cm         |-> NoConfigMap,
      lastUpdate |-> NoConfigMap,
      result     |-> "skipped",
      failed     |-> FALSE,
      after      |-> "none" ]

QueueInit ==
    /\ triggerQueue = <<>>
    /\ manifestStates = [mn \in QueueManifests |-> "none"]
    /\ uiResources = [mn \in QueueManifests |-> NoUIResource]
    /\ queueActions = <<>>
    /\ lastUpdate = NoConfigMap
    /\ configMap = NoConfigMap
    /\ queuePass = NoQueuePass

\* OnChange with `s.lastUpdate = &obj` (line 313) ahead of the error check
\* of lines 310-312: the baseline is replaced also when the write failed.
QueueOnChangeBaselineBeforeCheck(fails) ==
    LET out    == removeDisabledManifests(1)
        cm     == fromState
        result == IF skipsPublish(cm) THEN "skipped" ELSE CreateOrUpdate(cm)
        wrote  == result \in {"created", "updated"}
    IN  /\ Len(queueActions) + Len(out) <= MaxPending
        /\ fails => wrote
        /\ queueActions' = queueActions \o out
        /\ configMap' = IF wrote /\ ~fails THEN cm ELSE configMap
        /\ lastUpdate' = IF result # "skipped" THEN cm ELSE lastUpdate
        /\ queuePass' = [ ran        |-> TRUE,
                          steps      |-> queueSteps(out, result),
                          out        |-> out,
                          cm         |-> cm,
                          lastUpdate |-> lastUpdate,
                          result     |-> result,
                          failed     |-> fails,
                          after      |-> IF ~queuePass.ran THEN "none"
                                         ELSE IF queuePass.failed THEN "failed"
                                         ELSE IF queuePass.result \in {"created", "updated"}
                                         THEN "wrote"
                                         ELSE "quiet" ]
        /\ UNCHANGED <<triggerQueue, manifestStates, uiResources>>

\* TriggerQueueSubscriber.OnChange: one pass; `fails` says whether the write
\* of CreateOrUpdate returns an error.  queuePass keeps what the pass
\* dispatched, the ConfigMap it built, the lastUpdate it started from, what
\* CreateOrUpdate did ("skipped" when it was not called) and whether it
\* failed; `after` is the outcome of the pass right before this one when
\* nothing changed since: "none" (no such pass), "quiet" (it did not write),
\* "wrote" or "failed".
QueueOnChange(fails) ==
    LET out    == removeDisabledManifests(1)
        cm     == fromState
        result == IF skipsPublish(cm) THEN "skipped" ELSE CreateOrUpdate(cm)
        wrote  == result \in {"created", "updated"}
    IN  /\ Len(queueActions) + Len(out) <= MaxPending
        /\ fails => wrote
        /\ queueActions' = queueActions \o out
        /\ configMap' = IF wrote /\ ~fails THEN cm ELSE configMap
        /\ lastUpdate' = IF result # "skipped" /\ ~fails THEN cm ELSE lastUpdate
        /\ queuePass' = [ ran        |-> TRUE,
                          steps      |-> queueSteps(out, result),
                          out        |-> out,
                          cm         |-> cm,
                          lastUpdate |-> lastUpdate,
                          result     |-> result,
                          failed     |-> fails,
                          after      |-> IF ~queuePass.ran THEN "none"
                                         ELSE IF queuePass.failed THEN "failed"
                                         ELSE IF queuePass.result \in {"created", "updated"}
                                         THEN "wrote"
                                         ELSE "quiet" ]
        /\ UNCHANGED <<triggerQueue, manifestStates, uiResources>>

\* TriggerQueueSubscriber.OnChange with a log-only summary: returns at once.
QueueOnChangeLogOnly == UNCHANGED queueVars

\* EngineState.AppendToTriggerQueue: a manifest that is not queued is put at
\* the end of the queue, with the reason of the trigger.
AppendToTriggerQueue(mn, reason) ==
    /\ \A i \in DOMAIN triggerQueue : triggerQueue[i] # mn
    /\ manifestStates[mn] # NoManifestState
    /\ triggerQueue' = Append(triggerQueue, mn)
    /\ manifestStates' = [manifestStates EXCEPT ![mn] = reason]
    /\ queuePass' = NoQueuePass
    /\ UNCHANGED <<uiResources, queueActions, lastUpdate, configMap>>

\* A Tiltfile reload drops a manifest, or brings it back.
ManifestChanges(mn) ==
    /\ manifestStates' = [manifestStates EXCEPT ![mn] =
                              IF @ = NoManifestState THEN "none" ELSE NoManifestState]
    /\ queuePass' = NoQueuePass
    /\ UNCHANGED <<triggerQueue, uiResources, queueActions, lastUpdate, configMap>>

\* The UIResource of a manifest is created, disabled or enabled.
UIResourceChanges(mn, uir) ==
    /\ uiResources[mn] # uir
    /\ uiResources' = [uiResources EXCEPT ![mn] = uir]
    /\ queuePass' = NoQueuePass
    /\ UNCHANGED <<triggerQueue, manifestStates, queueActions, lastUpdate, configMap>>

\* The store reduces the oldest dispatched action, a LogAction.
ReduceLog ==
    /\ queueActions # <<>>
    /\ Head(queueActions).type = "LogAction"
    /\ queueActions' = Tail(queueActions)
    /\ queuePass' = NoQueuePass
    /\ UNCHANGED <<triggerQueue, manifestStates, uiResources, lastUpdate, configMap>>

\* The store reduces the oldest dispatched action, a
\* RemoveFromTriggerQueueAction: the manifest leaves the queue.
ReduceRemove ==
    /\ queueActions # <<>>
    /\ Head(queueActions).type = "RemoveFromTriggerQueueAction"
    /\ triggerQueue' = SelectSeq(triggerQueue, LAMBDA mn : mn # Head(queueActions).name)
    /\ queueActions' = Tail(queueActions)
    /\ queuePass' = NoQueuePass
    /\ UNCHANGED <<manifestStates, uiResources, lastUpdate, configMap>>

(***************************************************************************)
(* Trigger computation (package restarton): values.                        *)
(***************************************************************************)
\* time.Time values; 0 is the zero time.Time (a button never clicked, a
\* file watch without event, a StartAfter that is not set).
Clock == 0..MaxClock

ButtonNames == {"b1", "b2"}
FileWatchNames == {"f1", "f2"}

\* File paths, in the order strings sort.
FileOrder == <<"a", "b", "c">>

\* The values of a []string of names: the lists that StartOnSpec.UIButtons,
\* RestartOnSpec.UIButtons and RestartOnSpec.FileWatches take.
NameLists(names) ==
    {<<>>} \cup {<<n>> : n \in names} \cup {<<n, m>> : n \in names, m \in names}

\* A nil *StartOnSpec and a nil *RestartOnSpec.
NoStartOn == [isNil |-> TRUE, uiButtons |-> <<>>, startAfter |-> 0]
NoRestartOn == [isNil |-> TRUE, fileWatches |-> <<>>, uiButtons |-> <<>>]

StartOnSpecs ==
    {NoStartOn} \cup
    { [isNil |-> FALSE, uiButtons |-> bs, startAfter |-> t] :
        bs \in NameLists(ButtonNames), t \in Clock }

RestartOnSpecs ==
    {NoRestartOn} \cup
    { [isNil |-> FALSE, fileWatches |-> fs, uiButtons |-> bs] :
        fs \in NameLists(FileWatchNames), bs \in NameLists(ButtonNames) }

\* The RestartOnSpecs given to FilesChanged, which reads no button.
FileRestartOnSpecs == {restartOn \in RestartOnSpecs : restartOn.uiButtons = <<>>}

\* map[string]*v1alpha1.UIButton: a name that is no key is not in DOMAIN.
ButtonMaps ==
    UNION { [names -> [lastClickedAt : Clock]] : names \in SUBSET ButtonNames }

\* v1alpha1.FileEvent
FileEvents ==
    { [time |-> t, seenFiles |-> fs] :
        t \in 1..MaxClock, fs \in {<<"a">>, <<"c", "a">>} }

\* FileWatchStatus.FileEvents
EventLogs == UNION { [1..n -> FileEvents] : n \in 0..MaxEvents }

\* map[string]*v1alpha1.FileWatch for LastRestartEvent, which reads the
\* LastEventTime of a status.
FileWatchTimeMaps ==
    UNION { [names -> [lastEventTime : Clock, fileEvents : {<<>>}]] :
              names \in SUBSET FileWatchNames }

\* map[string]*v1alpha1.FileWatch for FilesChanged, which reads the event
\* logs: any log for f1, a log of at most one event for f2.
LastEventTime(log) == IF log = <<>> THEN 0 ELSE log[Len(log)].time

FileWatchOf(log) == [lastEventTime |-> LastEventTime(log), fileEvents |-> log]

FileWatchLogMaps ==
    { f \in UNION { [names -> {FileWatchOf(log) : log \in EventLogs}] :
                      names \in SUBSET FileWatchNames } :
        "f2" \in DOMAIN f => Len(f["f2"].fileEvents) <= 1 }

\* A nil *UIButton.
NoButton == "nil"

VARIABLES
    call    \* the call of a function of the package in progress, with its result

triggerVars == <<call>>

(***************************************************************************)
(* Trigger computation: LastStartEvent, LastRestartEvent, FilesChanged.    *)
(***************************************************************************)
\* time.Time.After and Before, with "at or after" in place of "after".
AfterOrEqual(t, u) == t >= u

\* time.Time.After and time.Time.Before
After(t, u) == t > u
Before(t, u) == t < u

\* Lines 68-79: the loop of LastStartEvent from the i-th button name on.
RECURSIVE lastStartFrom(_, _, _, _, _)
lastStartFrom(i, startOn, buttons, latestTime, latestButton) ==
    IF i > Len(startOn.uiButtons)
    THEN [time |-> latestTime, button |-> latestButton]
    ELSE LET bn == startOn.uiButtons[i]
         IN  IF bn \notin DOMAIN buttons
             THEN lastStartFrom(i + 1, startOn, buttons, latestTime, latestButton)
             ELSE LET lastEventTime == buttons[bn].lastClickedAt
                  IN  IF /\ ~Before(lastEventTime, startOn.startAfter)
                         /\ After(lastEventTime, latestTime)
                      THEN lastStartFrom(i + 1, startOn, buttons, lastEventTime, bn)
                      ELSE lastStartFrom(i + 1, startOn, buttons, latestTime, latestButton)

\* LastStartEvent: the time and the button (its name) it returns.
LastStartEvent(startOn, buttons) ==
    IF startOn.isNil THEN [time |-> 0, button |-> NoButton]
    ELSE lastStartFrom(1, startOn, buttons, 0, NoButton)

\* Lines 92-102 with a loop that ends at the first missing file watch.
RECURSIVE lastFileWatchFromUntilMissing(_, _, _, _)
lastFileWatchFromUntilMissing(i, restartOn, fileWatches, cur) ==
    IF i > Len(restartOn.fileWatches) THEN cur
    ELSE LET fwn == restartOn.fileWatches[i]
         IN  IF fwn \notin DOMAIN fileWatches THEN cur
             ELSE LET lastEventTime == fileWatches[fwn].lastEventTime
                  IN  lastFileWatchFromUntilMissing(i + 1, restartOn, fileWatches,
                          IF After(lastEventTime, cur) THEN lastEventTime ELSE cur)

\* Lines 92-102: the loop of LastRestartEvent over the file watches.
RECURSIVE lastFileWatchFrom(_, _, _, _)
lastFileWatchFrom(i, restartOn, fileWatches, cur) ==
    IF i > Len(restartOn.fileWatches) THEN cur
    ELSE LET fwn == restartOn.fileWatches[i]
         IN  IF fwn \notin DOMAIN fileWatches
             THEN lastFileWatchFrom(i + 1, restartOn, fileWatches, cur)
             ELSE LET lastEventTime == fileWatches[fwn].lastEventTime
                  IN  lastFileWatchFrom(i + 1, restartOn, fileWatches,
                          IF After(lastEventTime, cur) THEN lastEventTime ELSE cur)

\* Lines 104-115: the loop of LastRestartEvent over the buttons.
RECURSIVE lastButtonFrom(_, _, _, _, _)
lastButtonFrom(i, restartOn, buttons, cur, latestButton) ==
    IF i > Len(restartOn.uiButtons)
    THEN [time |-> cur, button |-> latestButton]
    ELSE LET bn == restartOn.uiButtons[i]
         IN  IF bn \notin DOMAIN buttons
             THEN lastButtonFrom(i + 1, restartOn, buttons, cur, latestButton)
             ELSE LET lastEventTime == buttons[bn].lastClickedAt
                  IN  IF After(lastEventTime, cur)
                      THEN lastButtonFrom(i + 1, restartOn, buttons, lastEventTime, bn)
                      ELSE lastButtonFrom(i + 1, restartOn, buttons, cur, latestButton)

\* LastRestartEvent that scans the buttons first and lets a later file-watch
\* event raise the time without clearing the button.
LastRestartEventButtonsFirst(restartOn, fileWatches, buttons) ==
    IF restartOn.isNil THEN [time |-> 0, button |-> NoButton]
    ELSE LET b == lastButtonFrom(1, restartOn, buttons, 0, NoButton)
         IN  [time   |-> lastFileWatchFrom(1, restartOn, fileWatches, b.time),
              button |-> b.button]

\* LastRestartEvent: the time and the button (its name) it returns.
LastRestartEvent(restartOn, fileWatches, buttons) ==
    IF restartOn.isNil THEN [time |-> 0, button |-> NoButton]
    ELSE lastButtonFrom(1, restartOn, buttons,
                        lastFileWatchFrom(1, restartOn, fileWatches, 0), NoButton)

\* sliceutils.DedupedAndSorted: the distinct strings of a slice, sorted.
DedupedAndSorted(slice) ==
    SelectSeq(FileOrder, LAMBDA f : \E i \in 1..Len(slice) : slice[i] = f)

\* Lines 133-138 with a scan that stops at the first event that is not
\* after lastBuild.
RECURSIVE eventsSinceUntilOld(_, _, _)
eventsSinceUntilOld(i, fileEvents, lastBuild) ==
    IF i < 1 THEN <<>>
    ELSE IF After(fileEvents[i].time, lastBuild)
         THEN fileEvents[i].seenFiles \o eventsSinceUntilOld(i - 1, fileEvents, lastBuild)
         ELSE <<>>

\* Lines 133-138: the files of the events after lastBuild, scanning the log
\* from its last event (index i) down to its first.
RECURSIVE eventsSince(_, _, _)
eventsSince(i, fileEvents, lastBuild) ==
    IF i < 1 THEN <<>>
    ELSE (IF After(fileEvents[i].time, lastBuild) THEN fileEvents[i].seenFiles ELSE <<>>)
         \o eventsSince(i - 1, fileEvents, lastBuild)

\* Lines 125-139: the loop of FilesChanged from the i-th file-watch name on.
RECURSIVE filesChangedFrom(_, _, _, _)
filesChangedFrom(i, restartOn, fileWatches, lastBuild) ==
    IF i > Len(restartOn.fileWatches) THEN <<>>
    ELSE LET fwn == restartOn.fileWatches[i]
         IN  (IF fwn \notin DOMAIN fileWatches THEN <<>>
              ELSE eventsSince(Len(fileWatches[fwn].fileEvents),
                               fileWatches[fwn].fileEvents, lastBuild))
             \o filesChangedFrom(i + 1, restartOn, fileWatches, lastBuild)

\* FilesChanged: the slice it returns, or the panic of the dereference of a
\* nil restartOn at line 125.
FilesChanged(restartOn, fileWatches, lastBuild) ==
    IF restartOn.isNil THEN [panics |-> TRUE, files |-> <<>>]
    ELSE [panics |-> FALSE,
          files  |-> DedupedAndSorted(
                         filesChangedFrom(1, restartOn, fileWatches, lastBuild))]

(***************************************************************************)
(* Trigger computation: the resolvers Buttons and FileWatches.             *)
(***************************************************************************)
\* What client.Get answers: an error, or the object as the apiserver holds
\* it at the time of the lookup (two versions of it).
GetAnswers == {"NotFound", "v1", "v2"}

\* The answers of the client to the successive lookups of one call.
AnswerLists == [1..MaxLookups -> GetAnswers]

\* A nil error, and the error of the lookup of name n.
NoError == <<>>
GetError(n, answer) == <<n, answer>>

\* The specs given to the resolvers, which read the names only.
ResolverStartOnSpecs == {startOn \in StartOnSpecs : startOn.startAfter = 0}
ResolverRestartOnSpecs(kind) ==
    {restartOn \in RestartOnSpecs :
        IF kind = "UIButton" THEN restartOn.fileWatches = <<>>
        ELSE restartOn.uiButtons = <<>>}

\* Line 27 with every name taken as not yet resolved.
existsNever(result, n) == FALSE

\* Line 27: _, exists := result[n]
exists(result, n) == n \in DOMAIN result

\* The map result with the entry n -> object set (lines 37 and 55).
Put(result, n, object) ==
    [m \in DOMAIN result \cup {n} |-> IF m = n THEN object ELSE result[m]]

\* Lines 26-39: the loop of Buttons from the i-th name on; lookups is the
\* list of the names looked up so far.
RECURSIVE buttonsFrom(_, _, _, _, _)
buttonsFrom(i, buttonNames, result, lookups, answers) ==
    IF i > Len(buttonNames)
    THEN [noMap |-> FALSE, objects |-> result, err |-> NoError, lookups |-> lookups]
    ELSE LET n == buttonNames[i]
         IN  IF exists(result, n)
             THEN buttonsFrom(i + 1, buttonNames, result, lookups, answers)
             ELSE LET answer == answers[Len(lookups) + 1]
                  IN  IF answer = "NotFound"
                      THEN [noMap |-> TRUE, objects |-> <<>>,
                            err |-> GetError(n, answer),
                            lookups |-> Append(lookups, n)]
                      ELSE buttonsFrom(i + 1, buttonNames, Put(result, n, answer),
                                       Append(lookups, n), answers)

\* Buttons: the map and the error it returns, and the lookups it makes.
Buttons(restartOn, startOn, answers) ==
    buttonsFrom(1,
        (IF startOn.isNil THEN <<>> ELSE startOn.uiButtons)
            \o (IF restartOn.isNil THEN <<>> ELSE restartOn.uiButtons),
        <<>>, <<>>, answers)

\* Lines 49-57: the loop of FileWatches from the i-th name on.
RECURSIVE fileWatchesFrom(_, _, _, _, _)
fileWatchesFrom(i, names, result, lookups, answers) ==
    IF i > Len(names)
    THEN [noMap |-> FALSE, objects |-> result, err |-> NoError, lookups |-> lookups]
    ELSE LET n == names[i]
             answer == answers[Len(lookups) + 1]
         IN  IF answer = "NotFound"
             THEN [noMap |-> TRUE, objects |-> <<>>,
                   err |-> GetError(n, answer),
                   lookups |-> Append(lookups, n)]
             ELSE fileWatchesFrom(i + 1, names, Put(result, n, answer),
                                  Append(lookups, n), answers)

\* FileWatches: the map and the error it returns, and the lookups it makes.
FileWatches(restartOn, answers) ==
    IF restartOn.isNil
    THEN [noMap |-> TRUE, objects |-> <<>>, err |-> NoError, lookups |-> <<>>]
    ELSE fileWatchesFrom(1, restartOn.fileWatches, <<>>, <<>>, answers)

\* No call in progress.
NoCall ==
    [fn |-> "none", startOn |-> NoStartOn, restartOn |-> NoRestartOn,
     buttons |-> <<>>, fileWatches |-> <<>>, lastBuild |-> 0,
     time |-> 0, button |-> NoButton, files |-> <<>>, panics |-> FALSE,
     answers |-> <<>>, noMap |-> FALSE, objects |-> <<>>, err |-> NoError,
     lookups |-> <<>>]

TriggerInit == call = NoCall

\* A caller evaluates LastStartEvent.
CallLastStartEvent ==
    /\ call.fn = "none"
    /\ \E startOn \in StartOnSpecs, buttons \in ButtonMaps :
       LET r == LastStartEvent(startOn, buttons)
       IN  call' = [NoCall EXCEPT !.fn = "LastStartEvent", !.startOn = startOn,
                                  !.buttons = buttons,
                                  !.time = r.time, !.button = r.button]

\* A caller evaluates LastRestartEvent.
CallLastRestartEvent ==
    /\ call.fn = "none"
    /\ \E restartOn \in RestartOnSpecs, fileWatches \in FileWatchTimeMaps,
          buttons \in ButtonMaps :
       LET r == LastRestartEvent(restartOn, fileWatches, buttons)
       IN  call' = [NoCall EXCEPT !.fn = "LastRestartEvent", !.restartOn = restartOn,
                                  !.fileWatches = fileWatches, !.buttons = buttons,
                                  !.time = r.time, !.button = r.button]

\* A caller evaluates FilesChanged.
CallFilesChanged ==
    /\ call.fn = "none"
    /\ \E restartOn \in FileRestartOnSpecs, fileWatches \in FileWatchLogMaps,
          lastBuild \in Clock :
       LET r == FilesChanged(restartOn, fileWatches, lastBuild)
       IN  call' = [NoCall EXCEPT !.fn = "FilesChanged", !.restartOn = restartOn,
                                  !.fileWatches = fileWatches, !.lastBuild = lastBuild,
                                  !.files = r.files, !.panics = r.panics]

\* A caller evaluates Buttons against a client.
CallButtons ==
    /\ call.fn = "none"
    /\ \E restartOn \in ResolverRestartOnSpecs("UIButton"),
          startOn \in ResolverStartOnSpecs, answers \in AnswerLists :
       LET r == Buttons(restartOn, startOn, answers)
       IN  call' = [NoCall EXCEPT !.fn = "Buttons", !.restartOn = restartOn,
                                  !.startOn = startOn, !.answers = answers,
                                  !.noMap = r.noMap, !.objects = r.objects,
                                  !.err = r.err, !.lookups = r.lookups]

\* A caller evaluates FileWatches against a client.
CallFileWatches ==
    /\ call.fn = "none"
    /\ \E restartOn \in ResolverRestartOnSpecs("FileWatch"), answers \in AnswerLists :
       LET r == FileWatches(restartOn, answers)
       IN  call' = [NoCall EXCEPT !.fn = "FileWatches", !.restartOn = restartOn,
                                  !.answers = answers,
                                  !.noMap = r.noMap, !.objects = r.objects,
                                  !.err = r.err, !.lookups = r.lookups]

\* The call returns to its caller.
Return ==
    /\ call.fn # "none"
    /\ call' = NoCall

(***************************************************************************)
(* Telemetry controller.                                                   *)
(***************************************************************************)
\* 1*time.Hour, in the unit of Clock.
Hour == 1

\* model.Cmd of the telemetry script: empty, or a command.
TelemetryCmds == {[args |-> <<>>], [args |-> <<"t">>]}

VARIABLES
    telemetryCmd,           \* EngineState.TelemetryCmd
    lastTelemetryScriptRun, \* EngineState.LastTelemetryScriptRun
    now,                    \* what Controller.clock.Now() answers
    runCounter,             \* Controller.runCounter
    telemetryPass           \* the steps of the OnChange pass that just ran

telemetryVars == <<telemetryCmd, lastTelemetryScriptRun, now, runCounter, telemetryPass>>

NoTelemetryPass == [ran |-> FALSE, steps |-> <<>>, runs |-> FALSE]

TelemetryInit ==
    /\ telemetryCmd = [args |-> <<>>]
    /\ lastTelemetryScriptRun = 0
    /\ now = 0
    /\ runCounter = 0
    /\ telemetryPass = NoTelemetryPass

\* The condition of line 41, whose last disjunct is the literal true.
returnsEarly(tc, lastTelemetryRun) ==
    \/ Empty(tc)
    \/ ~Before(lastTelemetryRun + Hour, now)
    \/ TRUE

\* maybeRunScript: whether it runs the script, and its steps: the spans are
\* fetched and the command is run (each may fail, which dispatches a log
\* action), then TelemetryScriptRanAction is dispatched.
maybeRunScript(tc, lastTelemetryRun, spansFail, cmdFails) ==
    IF returnsEarly(tc, lastTelemetryRun)
    THEN [runs |-> FALSE, steps |-> <<>>]
    ELSE [runs  |-> TRUE,
          steps |-> <<"GetOutgoingSpans">>
                        \o (IF spansFail THEN <<"Dispatch">> ELSE <<>>)
                        \o <<"CombinedOutput">>
                        \o (IF cmdFails THEN <<"Dispatch">> ELSE <<>>)
                        \o <<"Dispatch">>]

\* Controller.OnChange, lines 32-35: the state is read under the read lock,
\* which is released before maybeRunScript is called.
TelemetryOnChange(spansFail, cmdFails) ==
    LET r == maybeRunScript(telemetryCmd, lastTelemetryScriptRun, spansFail, cmdFails)
    IN  /\ runCounter' = IF r.runs THEN runCounter + 1 ELSE runCounter
        /\ telemetryPass' = [ran   |-> TRUE,
                             steps |-> <<"RLockState", "RUnlockState">> \o r.steps,
                             runs  |-> r.runs]
        /\ UNCHANGED <<telemetryCmd, lastTelemetryScriptRun, now>>

\* The Tiltfile sets the telemetry command, or the store records a run of it.
TelemetryStateChanges(tc, lastRun) ==
    /\ <<tc, lastRun>> # <<telemetryCmd, lastTelemetryScriptRun>>
    /\ lastRun <= now
    /\ telemetryCmd' = tc
    /\ lastTelemetryScriptRun' = lastRun
    /\ telemetryPass' = NoTelemetryPass
    /\ UNCHANGED <<now, runCounter>>

\* Time passes.
ClockAdvances ==
    /\ now < MaxClock
    /\ now' = now + 1
    /\ telemetryPass' = NoTelemetryPass
    /\ UNCHANGED <<telemetryCmd, lastTelemetryScriptRun, runCounter>>

(***************************************************************************)
(* Exit controller.                                                        *)
(***************************************************************************)
ExitManifests == {"fe", "fe2"}

\* store.EngineMode: the default mode, and the two modes that exit.
EngineModes == {"up", "apply", "ci"}

\* The last completed build of a manifest: none, one without Error, one
\* with Error.
BuildStates == {"none", "ok", "failed"}

\* The most recent pod of the runtime state of a manifest: none; a pod
\* that is not ready; a running pod whose container is ready; a pod in
\* phase Succeeded; a pod whose status is an error.
PodStates == {"none", "Pending", "Running", "Completed", "ErrImagePull"}

PodID(mn) == IF mn = "fe" THEN "pod-a" ELSE "pod-b"

\* A manifest that is not in state.ManifestTargets, and a manifest target.
NoTarget == [present |-> FALSE, isJob |-> FALSE, build |-> "none", pod |-> "none"]
ManifestTarget(isJob, build, pod) ==
    [present |-> TRUE, isJob |-> isJob, build |-> build, pod |-> pod]

\* exit.Action: ExitSignal and ExitError (NoExitError: nil).
NoExitError == <<>>
BuildError(mn) == <<"build", mn>>
PodError(mn, status) == <<"Pod", PodID(mn), "in error state", status>>
ExitAction(exitSignal, exitError) ==
    [exitSignal |-> exitSignal, exitError |-> exitError]

VARIABLES
    engineMode,     \* EngineState.EngineMode
    exitTargets,    \* EngineState.ManifestTargets
    exitSignal,     \* testStore.exitSignal
    exitError,      \* testStore.exitError
    exitPass        \* the action computed by the OnChange pass that just ran

exitVars == <<engineMode, exitTargets, exitSignal, exitError, exitPass>>

NoExitPass == [ran |-> FALSE, action |-> ExitAction(FALSE, NoExitError)]

ExitInit ==
    /\ engineMode = "up"
    /\ exitTargets = [mn \in ExitManifests |-> NoTarget]
    /\ exitSignal = FALSE
    /\ exitError = NoExitError
    /\ exitPass = NoExitPass

PresentTargets == {mn \in ExitManifests : exitTargets[mn].present}

\* The pod status is an error status.
podInError(pod) == pod = "ErrImagePull"

\* The runtime counts as ready as soon as a pod exists.
runtimeReadyOnRunning(target) == target.pod \in {"Running", "Completed"}

\* The runtime of a target is ready: the pod of a Job has succeeded, the
\* pod of any other workload is running with its container ready.
runtimeReady(target) ==
    IF target.isJob THEN target.pod = "Completed"
    ELSE target.pod \in {"Running", "Completed"}

\* The target does not hold the exit back: its build has completed and, in
\* CI mode, its runtime is ready.
targetDone(target) ==
    /\ target.build = "ok"
    /\ engineMode = "ci" => runtimeReady(target)

\* shouldExit decided on all builds completed, failures ignored.
shouldExitIgnoringFailures ==
    IF engineMode = "up" \/ PresentTargets = {}
    THEN {ExitAction(FALSE, NoExitError)}
    ELSE {ExitAction(\A mn \in PresentTargets : exitTargets[mn].build # "none",
                     NoExitError)}

\* The actions the controller may compute from the state (one for each
\* order in which the map of manifest targets is visited): none outside
\* apply and CI mode or without manifest; the exit with the error of a
\* failed build; in CI mode the exit with the error of a pod in an error
\* state; the exit without error when no target holds it back.
shouldExit ==
    LET failed == {mn \in PresentTargets : exitTargets[mn].build = "failed"}
        inError == {mn \in PresentTargets : podInError(exitTargets[mn].pod)}
    IN  IF engineMode = "up" \/ PresentTargets = {}
        THEN {ExitAction(FALSE, NoExitError)}
        ELSE IF failed # {}
        THEN {ExitAction(TRUE, BuildError(mn)) : mn \in failed}
        ELSE IF engineMode = "ci" /\ inError # {}
        THEN {ExitAction(TRUE, PodError(mn, exitTargets[mn].pod)) : mn \in inError}
        ELSE {ExitAction(\A mn \in PresentTargets : targetDone(exitTargets[mn]),
                         NoExitError)}

\* Controller.OnChange: the action is dispatched when it carries the exit
\* signal, and the test store records it (test lines 221-229).
ExitOnChange ==
    /\ ~exitSignal
    /\ \E action \in shouldExit :
           /\ exitPass' = [ran |-> TRUE, action |-> action]
           /\ exitSignal' = action.exitSignal
           /\ exitError' = action.exitError
    /\ UNCHANGED <<engineMode, exitTargets>>

\* newFixture: the engine mode is set before any manifest is added.
SetEngineMode(mode) ==
    /\ ~exitSignal
    /\ PresentTargets = {}
    /\ engineMode # mode
    /\ engineMode' = mode
    /\ exitPass' = NoExitPass
    /\ UNCHANGED <<exitTargets, exitSignal, exitError>>

\* state.UpsertManifestTarget: a manifest without build and without pod.
UpsertManifestTarget(mn, isJob) ==
    /\ ~exitSignal
    /\ ~exitTargets[mn].present
    /\ exitTargets' = [exitTargets EXCEPT ![mn] = ManifestTarget(isJob, "none", "none")]
    /\ exitPass' = NoExitPass
    /\ UNCHANGED <<engineMode, exitSignal, exitError>>

\* State.AddCompletedBuild: a build record with or without Error.
AddCompletedBuild(mn, build) ==
    /\ ~exitSignal
    /\ exitTargets[mn].present
    /\ exitTargets[mn].build # build
    /\ exitTargets' = [exitTargets EXCEPT ![mn].build = build]
    /\ exitPass' = NoExitPass
    /\ UNCHANGED <<engineMode, exitSignal, exitError>>

\* State.RuntimeState = store.NewK8sRuntimeState(pod)
SetRuntimeState(mn, pod) ==
    /\ ~exitSignal
    /\ exitTargets[mn].present
    /\ exitTargets[mn].pod # pod
    /\ exitTargets' = [exitTargets EXCEPT ![mn].pod = pod]
    /\ exitPass' = NoExitPass
    /\ UNCHANGED <<engineMode, exitSignal, exitError>>

(***************************************************************************)
(* Specifications.                                                         *)
(***************************************************************************)
vars == <<serverVars, objVars, queueVars, triggerVars, telemetryVars, exitVars>>

\* A new controller against a store without Cmds, an empty object store, and
\* a new trigger-queue subscriber against an empty queue.
Init == ServerInit /\ ObjInit /\ QueueInit /\ TriggerInit /\ TelemetryInit /\ ExitInit

\* The process-server controller against the store.
ServerNext ==
    \/ \E ownedCmds \in OwnedCmdsChoices : OnChange(ownedCmds) /\ UNCHANGED <<objVars, queueVars, triggerVars, telemetryVars, exitVars>>
    \/ OnChangeLogOnly /\ UNCHANGED <<objVars, queueVars, triggerVars, telemetryVars, exitVars>>
    \/ \E m \in ChangingManifests, serveCmd \in ServeCmdValues, deployTime \in Times :
            SetManifest(m, serveCmd, deployTime) /\ UNCHANGED <<objVars, queueVars, triggerVars, telemetryVars, exitVars>>
    \/ ReduceCreate /\ UNCHANGED <<objVars, queueVars, triggerVars, telemetryVars, exitVars>>
    \/ ReduceDelete /\ UNCHANGED <<objVars, queueVars, triggerVars, telemetryVars, exitVars>>
    \/ \E name \in DOMAIN cmds, status \in CmdStatuses :
            CmdExits(name, status) /\ UNCHANGED <<objVars, queueVars, triggerVars, telemetryVars, exitVars>>

Spec == Init /\ [][ServerNext]_vars

\* The owned-object reconciler against the object store.
ObjNext ==
    \/ \E failing \in SUBSET Keys :
            UpdateOwnedObjects(failing, 0, "ok") /\ UNCHANGED <<serverVars, queueVars, triggerVars, telemetryVars, exitVars>>
    \/ \E key \in Keys, spec \in ObjSpecs :
            TiltfileChanges(key, TiltfileObject(spec)) /\ UNCHANGED <<serverVars, queueVars, triggerVars, telemetryVars, exitVars>>
    \/ \E key \in Keys : TiltfileChanges(key, NoObject) /\ UNCHANGED <<serverVars, queueVars, triggerVars, telemetryVars, exitVars>>
    \/ \E key \in Keys : UnownedObjectChanges(key) /\ UNCHANGED <<serverVars, queueVars, triggerVars, telemetryVars, exitVars>>

SpecObjects == Init /\ [][ObjNext]_vars

\* The owned-object reconciler against a cache that may not have started:
\* every answer of the cache to the fetches, the Tiltfile generating objects
\* of one kind.
FetchKeys == {key \in Keys : key[1] = "KubernetesApply"}

FetchNext ==
    \/ \E failing \in SUBSET FetchKeys, notStarted \in 0..MaxNotStarted,
          next \in FetchOutcomes \ {"ErrCacheNotStarted"} :
            UpdateOwnedObjects(failing, notStarted, next) /\ UNCHANGED <<serverVars, queueVars, triggerVars, telemetryVars, exitVars>>
    \/ \E key \in FetchKeys, spec \in ObjSpecs :
            TiltfileChanges(key, TiltfileObject(spec)) /\ UNCHANGED <<serverVars, queueVars, triggerVars, telemetryVars, exitVars>>
    \/ \E key \in FetchKeys : TiltfileChanges(key, NoObject) /\ UNCHANGED <<serverVars, queueVars, triggerVars, telemetryVars, exitVars>>

SpecFetch == Init /\ [][FetchNext]_vars

\* The trigger-queue controller against the store and the object store.
QueueNext ==
    \/ \E fails \in BOOLEAN : QueueOnChange(fails) /\ UNCHANGED <<serverVars, objVars, triggerVars, telemetryVars, exitVars>>
    \/ QueueOnChangeLogOnly /\ UNCHANGED <<serverVars, objVars, triggerVars, telemetryVars, exitVars>>
    \/ \E mn \in QueueManifests, reason \in BuildReasons \ {"none"} :
            AppendToTriggerQueue(mn, reason) /\ UNCHANGED <<serverVars, objVars, triggerVars, telemetryVars, exitVars>>
    \/ \E mn \in DroppedManifests : ManifestChanges(mn) /\ UNCHANGED <<serverVars, objVars, triggerVars, telemetryVars, exitVars>>
    \/ \E mn \in QueueManifests, disabledCount \in 0..1 :
            UIResourceChanges(mn, UIResource(disabledCount))
                /\ UNCHANGED <<serverVars, objVars, triggerVars, telemetryVars, exitVars>>
    \/ ReduceLog /\ UNCHANGED <<serverVars, objVars, triggerVars, telemetryVars, exitVars>>
    \/ ReduceRemove /\ UNCHANGED <<serverVars, objVars, triggerVars, telemetryVars, exitVars>>

SpecQueue == Init /\ [][QueueNext]_vars

\* The trigger-queue controller against an object store that accepts its
\* writes: manifests are queued while their resource is enabled, resources
\* get disabled and enabled, the store reduces what the controller
\* dispatched.
QueueLiveNext ==
    \/ QueueOnChange(FALSE) /\ UNCHANGED <<serverVars, objVars, triggerVars, telemetryVars, exitVars>>
    \/ \E mn \in QueueManifests, reason \in BuildReasons \ {"none"} :
            ~isDisabled(mn) /\ AppendToTriggerQueue(mn, reason)
                /\ UNCHANGED <<serverVars, objVars, triggerVars, telemetryVars, exitVars>>
    \/ \E mn \in QueueManifests, disabledCount \in 0..1 :
            UIResourceChanges(mn, UIResource(disabledCount))
                /\ UNCHANGED <<serverVars, objVars, triggerVars, telemetryVars, exitVars>>
    \/ ReduceLog /\ UNCHANGED <<serverVars, objVars, triggerVars, telemetryVars, exitVars>>
    \/ ReduceRemove /\ UNCHANGED <<serverVars, objVars, triggerVars, telemetryVars, exitVars>>

\* The store reduces every action dispatched to it, and every change of the
\* store is followed by a pass of the subscriber (store.Subscriber.OnChange).
SpecQueueLive ==
    /\ Init /\ [][QueueLiveNext]_vars
    /\ WF_queueVars(QueueOnChange(FALSE))
    /\ WF_queueVars(ReduceLog)
    /\ WF_queueVars(ReduceRemove)

\* The functions of package restarton, on every input within the bounds.
TriggerNext ==
    \/ CallLastStartEvent /\ UNCHANGED <<serverVars, objVars, queueVars, telemetryVars, exitVars>>
    \/ CallLastRestartEvent /\ UNCHANGED <<serverVars, objVars, queueVars, telemetryVars, exitVars>>
    \/ CallFilesChanged /\ UNCHANGED <<serverVars, objVars, queueVars, telemetryVars, exitVars>>
    \/ CallButtons /\ UNCHANGED <<serverVars, objVars, queueVars, telemetryVars, exitVars>>
    \/ CallFileWatches /\ UNCHANGED <<serverVars, objVars, queueVars, telemetryVars, exitVars>>
    \/ Return /\ UNCHANGED <<serverVars, objVars, queueVars, telemetryVars, exitVars>>

SpecTrigger == Init /\ [][TriggerNext]_vars

\* The times of a first and of a second deploy.
DeployTimes == {1, 2}

\* The controller against a store with two servers: both manifests keep one
\* serve command and are deployed, and deployed again.
ServersNext ==
    \/ \E ownedCmds \in OwnedCmdsChoices : OnChange(ownedCmds) /\ UNCHANGED <<objVars, queueVars, triggerVars, telemetryVars, exitVars>>
    \/ \E m \in Manifests, deployTime \in DeployTimes :
            SetManifest(m, [args |-> <<"x">>], deployTime) /\ UNCHANGED <<objVars, queueVars, triggerVars, telemetryVars, exitVars>>
    \/ ReduceCreate /\ UNCHANGED <<objVars, queueVars, triggerVars, telemetryVars, exitVars>>
    \/ ReduceDelete /\ UNCHANGED <<objVars, queueVars, triggerVars, telemetryVars, exitVars>>
    \/ \E name \in DOMAIN cmds : CmdExits(name, "terminated") /\ UNCHANGED <<objVars, queueVars, triggerVars, telemetryVars, exitVars>>

SpecServers == Init /\ [][ServersNext]_vars

\* The telemetry controller as subscriber of the store.
TelemetryNext ==
    \/ \E spansFail \in BOOLEAN, cmdFails \in BOOLEAN :
            TelemetryOnChange(spansFail, cmdFails)
                /\ UNCHANGED <<serverVars, objVars, queueVars, triggerVars, exitVars>>
    \/ \E tc \in TelemetryCmds, lastRun \in Clock :
            TelemetryStateChanges(tc, lastRun)
                /\ UNCHANGED <<serverVars, objVars, queueVars, triggerVars, exitVars>>
    \/ ClockAdvances /\ UNCHANGED <<serverVars, objVars, queueVars, triggerVars, exitVars>>

\* The process-server controller against a store whose manifest keeps one
\* serve command and changes its deploy time.
LockServerNext ==
    \/ \E ownedCmds \in OwnedCmdsChoices : OnChange(ownedCmds) /\ UNCHANGED <<objVars, queueVars, triggerVars, telemetryVars, exitVars>>
    \/ \E m \in ChangingManifests, deployTime \in Times :
            SetManifest(m, [args |-> <<"x">>], deployTime) /\ UNCHANGED <<objVars, queueVars, triggerVars, telemetryVars, exitVars>>
    \/ ReduceCreate /\ UNCHANGED <<objVars, queueVars, triggerVars, telemetryVars, exitVars>>
    \/ ReduceDelete /\ UNCHANGED <<objVars, queueVars, triggerVars, telemetryVars, exitVars>>
    \/ \E name \in DOMAIN cmds : CmdExits(name, "terminated") /\ UNCHANGED <<objVars, queueVars, triggerVars, telemetryVars, exitVars>>

\* The three subscribers that read the store under its read lock.  They
\* share no state, and a behaviour exercises one of them: a subscriber
\* takes steps while the other two are in their initial state.
LocksNext ==
    \/ QueueInit /\ TelemetryInit /\ LockServerNext
    \/ ServerInit /\ TelemetryInit /\ QueueNext
    \/ ServerInit /\ QueueInit /\ TelemetryNext

SpecLocks == Init /\ [][LocksNext]_vars

\* The exit controller as subscriber of the store.
ExitNext ==
    \/ ExitOnChange /\ UNCHANGED <<serverVars, objVars, queueVars, triggerVars, telemetryVars>>
    \/ \E mode \in EngineModes :
            SetEngineMode(mode) /\ UNCHANGED <<serverVars, objVars, queueVars, triggerVars, telemetryVars>>
    \/ \E mn \in ExitManifests, isJob \in BOOLEAN :
            UpsertManifestTarget(mn, isJob) /\ UNCHANGED <<serverVars, objVars, queueVars, triggerVars, telemetryVars>>
    \/ \E mn \in ExitManifests, build \in BuildStates \ {"none"} :
            AddCompletedBuild(mn, build) /\ UNCHANGED <<serverVars, objVars, queueVars, triggerVars, telemetryVars>>
    \/ \E mn \in ExitManifests, pod \in PodStates \ {"none"} :
            SetRuntimeState(mn, pod) /\ UNCHANGED <<serverVars, objVars, queueVars, triggerVars, telemetryVars>>

SpecExit == Init /\ [][ExitNext]_vars

\* The controller with restarts, against a store whose manifest keeps one
\* serve command and changes its deploy time.
RestartNext ==
    \/ \E ownedCmds \in OwnedCmdsChoices : OnChange(ownedCmds) /\ UNCHANGED <<objVars, queueVars, triggerVars, telemetryVars, exitVars>>
    \/ \E m \in ChangingManifests, deployTime \in Times :
            SetManifest(m, [args |-> <<"x">>], deployTime) /\ UNCHANGED <<objVars, queueVars, triggerVars, telemetryVars, exitVars>>
    \/ ReduceCreate /\ UNCHANGED <<objVars, queueVars, triggerVars, telemetryVars, exitVars>>
    \/ ReduceDelete /\ UNCHANGED <<objVars, queueVars, triggerVars, telemetryVars, exitVars>>
    \/ \E name \in DOMAIN cmds : CmdExits(name, "errored") /\ UNCHANGED <<objVars, queueVars, triggerVars, telemetryVars, exitVars>>
    \/ Restart /\ UNCHANGED <<objVars, queueVars, triggerVars, telemetryVars, exitVars>>

SpecRestart == Init /\ [][RestartNext]_vars

(***************************************************************************)
(* Process-server controller: properties.                                  *)
(*                                                                         *)
(* A pass leaves the store as it found it (Dispatch is asynchronous), so   *)
(* in the state right after a pass (pass.ran) `targets` and `cmds` are     *)
(* what the pass read, pass.before is the controller it started from and   *)
(* pass.out[m] is what it dispatched for server m.                         *)
(***************************************************************************)
\* The Cmds of the store owned by m that are not in a terminal status.
LiveCmds(m) == {n \in OwnedBy(m) : ~IsTerminated(cmds[n].status)}

\* The Cmd the controller had last created for m when the pass began.
PriorCmd(m) == pass.before.createdCmds[m]

\* The Cmd the listing reported for m to the pass.
ListedCmd(m) == pass.ownedCmds[m]

\* The desired spec and trigger time of m are those of the Cmd last created.
DesiredAsCreated(m) ==
    /\ PriorCmd(m) # NoCmd
    /\ PriorCmd(m).spec.args = targets[m].serveCmd.args
    /\ pass.before.createdTriggerTime[m] = targets[m].deployTime

CreatesFor(m) ==
    Len(SelectSeq(pass.out[m], LAMBDA a : a.type = "CmdCreateAction"))

DeletesFor(m) ==
    Len(SelectSeq(pass.out[m], LAMBDA a : a.type = "CmdDeleteAction"))

\* The pass dispatched one create request, for m, and nothing else for m.
OneCreateFor(m) ==
    /\ Len(pass.out[m]) = 1
    /\ pass.out[m][1].type = "CmdCreateAction"
    /\ pass.out[m][1].owner = m

\* The delete requests for Cmd n that the store has not reduced yet.
PendingDeletes(n) ==
    {i \in DOMAIN actions : actions[i].type = "CmdDeleteAction" /\ actions[i].name = n}

\* C1: in every reachable state each server name owns at most one Cmd of the
\* store that is not in a terminal status.
C1_AtMostOneLiveCmd ==
    \A m \in Manifests : Cardinality(LiveCmds(m)) <= 1

\* C2: a pass dispatches a create for a server that already has a created
\* Cmd only when that prior Cmd is in the store in a terminal status.
C2_NoCreateBeforePriorTerminal ==
    \A m \in Manifests :
        (pass.ran /\ CreatesFor(m) > 0 /\ PriorCmd(m) # NoCmd)
            => /\ PriorCmd(m).name \in DOMAIN cmds
               /\ IsTerminated(cmds[PriorCmd(m).name].status)

\* C3: no Cmd gets more than one delete request.  (A delete request stays
\* pending until the store reduces it, and a Cmd whose delete was reduced is
\* terminated and is not deleted again: a second request for a Cmd shows as
\* two pending requests.)
C3_OneDeleteRequestPerCmd ==
    \A n \in DOMAIN cmds : Cardinality(PendingDeletes(n)) <= 1

\* C4, as claimed: when the target of a server did not change between two
\* consecutive passes, the second pass dispatches nothing for it.
C4_NoDispatchWhenUnchanged ==
    \A m \in Manifests :
        (pass.ran /\ IsServer(m) /\ pass.unchanged[m]) => pass.out[m] = <<>>

\* C4, amended: when the target of a server did not change between two
\* consecutive passes and is, when the second pass begins, the spec and
\* trigger time of the Cmd last created for the server, the second pass
\* dispatches nothing for it.
C4_NoDispatchWhenUnchangedAndCreated ==
    \A m \in Manifests :
        (pass.ran /\ IsServer(m) /\ pass.unchanged[m] /\ DesiredAsCreated(m))
            => pass.out[m] = <<>>

\* A second pass over an unchanged, already created server whose Cmd runs.
C4_Witness ==
    \E m \in Manifests :
        /\ pass.ran /\ IsServer(m) /\ pass.unchanged[m] /\ DesiredAsCreated(m)
        /\ LiveCmds(m) = {PriorCmd(m).name}
        /\ pass.out[m] = <<>>

\* C5: a pass of a controller constructed anew (no bookkeeping for the
\* server) creates no Cmd for a server while the store lists a non-terminal
\* Cmd owned by it.
C5_NoSecondCmdAfterRestart ==
    \A m \in Manifests :
        (pass.ran /\ restarts > 0 /\ PriorCmd(m) = NoCmd /\ LiveCmds(m) # {})
            => CreatesFor(m) = 0

\* C6, as claimed: in a pass where the desired spec or trigger time differs
\* from what was last created, and no Cmd of the server is listed or the
\* prior Cmd is terminal, exactly one create is dispatched for the server.
C6_CreateWhenAbsentOrTerminal ==
    \A m \in Manifests :
        ( /\ pass.ran /\ IsServer(m) /\ ~DesiredAsCreated(m)
          /\ \/ OwnedBy(m) = {}
             \/ /\ PriorCmd(m) # NoCmd
                /\ PriorCmd(m).name \in DOMAIN cmds
                /\ IsTerminated(cmds[PriorCmd(m).name].status) )
            => OneCreateFor(m)

\* C6, amended: in a pass where the desired spec or trigger time differs
\* from what was last created, and the controller has created no Cmd for
\* the server or the listing reports the Cmd it last created, in a terminal
\* status, exactly one create is dispatched for the server.
C6_CreateWhenUncreatedOrListedTerminal ==
    \A m \in Manifests :
        ( /\ pass.ran /\ IsServer(m) /\ ~DesiredAsCreated(m)
          /\ \/ PriorCmd(m) = NoCmd
             \/ /\ ListedCmd(m) = PriorCmd(m).name
                /\ IsTerminated(cmds[ListedCmd(m)].status) )
            => OneCreateFor(m)

\* A pass that replaces a terminated Cmd after the desired state changed.
C6_Witness ==
    \E m \in Manifests :
        /\ pass.ran /\ IsServer(m) /\ ~DesiredAsCreated(m)
        /\ PriorCmd(m) # NoCmd
        /\ ListedCmd(m) = PriorCmd(m).name
        /\ IsTerminated(cmds[ListedCmd(m)].status)
        /\ OneCreateFor(m)

(***************************************************************************)
(* Owned-object reconciler: properties.                                    *)
(***************************************************************************)
\* The number of calls of the pass with this operation on this key.
CallCount(op, key) ==
    Cardinality({i \in DOMAIN objPass.calls :
                    objPass.calls[i].op = op /\ objPass.calls[i].key = key})

One(cond) == IF cond THEN 1 ELSE 0

\* The key is in one set and not the other, or in both with differing specs.
Mismatched(key) ==
    \/ apiObjects[key] # NoObject /\ objPass.oldObjects[key] = NoObject
    \/ apiObjects[key] = NoObject /\ objPass.oldObjects[key] # NoObject
    \/ /\ apiObjects[key] # NoObject
       /\ objPass.oldObjects[key] # NoObject
       /\ apiObjects[key].spec # objPass.oldObjects[key].spec

FailedCalls == {i \in DOMAIN objPass.calls : objPass.calls[i].key \in objPass.failing}

\* C7: a pass makes exactly one create call for every key of the desired set
\* that the owner-scoped actual set lacks, exactly one delete call for every
\* key of the actual set that the desired set lacks, and no other create or
\* delete call.
C7_CreatesAndDeletesAreTheSetDifferences ==
    objPass.ran =>
        \A key \in Keys :
            /\ CallCount("create", key) =
                   One(apiObjects[key] # NoObject /\ objPass.oldObjects[key] = NoObject)
            /\ CallCount("delete", key) =
                   One(objPass.oldObjects[key] # NoObject /\ apiObjects[key] = NoObject)

C7_Witness ==
    /\ objPass.ran
    /\ \E key \in Keys : CallCount("create", key) = 1
    /\ \E key \in Keys : CallCount("delete", key) = 1
    /\ \E key \in Keys : apiObjects[key] # NoObject /\ objPass.oldObjects[key] # NoObject

\* C8: for a key in both sets a pass makes one update call when the two specs
\* differ and none when they are equal, whatever the metadata of the two
\* objects.
C8_UpdateIffSpecsDiffer ==
    objPass.ran =>
        \A key \in Keys :
            CallCount("update", key) =
                One(/\ apiObjects[key] # NoObject
                    /\ objPass.oldObjects[key] # NoObject
                    /\ apiObjects[key].spec # objPass.oldObjects[key].spec)

C8_Witness ==
    /\ objPass.ran
    /\ \E key \in Keys : CallCount("update", key) = 1
    /\ \E key \in Keys :
          /\ apiObjects[key] # NoObject
          /\ objPass.oldObjects[key] # NoObject
          /\ apiObjects[key].spec = objPass.oldObjects[key].spec
          /\ apiObjects[key] # objPass.oldObjects[key]
          /\ CallCount("update", key) = 0

\* C9: a pass that runs right after a pass whose calls all succeeded, with the
\* same desired set and against the store that pass left, makes no call.
C9_SecondPassMakesNoCall ==
    objPass.afterCalls >= 0 => objPass.calls = <<>>

C9_Witness ==
    /\ objPass.afterCalls >= 2
    /\ objPass.calls = <<>>
    /\ \E key \in Keys : apiserver[key].resourceVersion = MaxResourceVersion
    /\ \E key \in Keys : apiserver[key] # NoObject /\ ~apiserver[key].owned

\* C10: a failed call does not end the pass: every mismatched key gets its
\* call whichever calls fail, the returned error has one entry per failed
\* call, and it is nil when no call failed.
C10_FailuresAreCollected ==
    objPass.ran =>
        /\ \A key \in Keys :
               CallCount("create", key) + CallCount("update", key)
                   + CallCount("delete", key) = One(Mismatched(key))
        /\ Len(objPass.err.errors) = Cardinality(FailedCalls)
        /\ \A i \in FailedCalls :
               Cardinality({j \in DOMAIN objPass.err.errors :
                               objPass.err.errors[j] = CallError(objPass.calls[i])}) = 1
        /\ objPass.err.isNil <=> FailedCalls = {}

C10_Witness ==
    /\ objPass.ran
    /\ Len(objPass.calls) = 3
    /\ objPass.calls[1].key \in objPass.failing
    /\ objPass.calls[2].key \notin objPass.failing
    /\ objPass.calls[3].key \in objPass.failing
    /\ Len(objPass.err.errors) = 2

\* The keys under which the store held an object without the owner label
\* when the pass began.
UnownedBefore ==
    {key \in Keys : objPass.before[key] # NoObject /\ ~objPass.before[key].owned}

\* C11: every call of a pass is for an object that carries the owner label,
\* and a stored object without the label gets no update and no delete call
\* and is left as it was, whether or not the desired set has its kind and
\* name.
C11_UnownedObjectsUntouched ==
    objPass.ran =>
        /\ \A i \in DOMAIN objPass.calls : objPass.calls[i].obj.owned
        /\ \A key \in UnownedBefore :
               /\ CallCount("update", key) = 0
               /\ CallCount("delete", key) = 0
               /\ apiserver[key] = objPass.before[key]

C11_Witness ==
    /\ objPass.ran
    /\ \E key \in UnownedBefore : apiObjects[key] # NoObject
    /\ \E key \in UnownedBefore : apiObjects[key] = NoObject
    /\ \E key \in Keys : CallCount("delete", key) = 1

\* C12: a pass fetches again only after a "not started" error and at most
\* MaxRetryCount times, sleeping RetrySleep before each retry; any other
\* error, or "not started" once the retries are used up, is what the pass
\* returns, and such a pass makes no call and leaves the store alone.
C12_FetchRetriedOnlyWhileNotStarted ==
    LET log == objPass.fetch.log
    IN  log # <<>> =>
            /\ \A i \in 1..(Len(log) - 1) : log[i] = "ErrCacheNotStarted"
            /\ Len(log) = objPass.fetch.retryCount + 1
            /\ objPass.fetch.retryCount <= MaxRetryCount
            /\ objPass.fetch.slept = objPass.fetch.retryCount * RetrySleep
            /\ objPass.fetch.err = log[Len(log)]
            /\ log[Len(log)] = "ErrCacheNotStarted" => Len(log) = MaxRetryCount + 1
            /\ objPass.ran <=> log[Len(log)] = "ok"
            /\ ~objPass.ran => objPass.calls = <<>> /\ apiserver = objPass.before

\* A pass that gives up after its last retry, with objects to create and to
\* delete.
C12_Witness ==
    /\ objPass.fetch.err = "ErrCacheNotStarted"
    /\ objPass.fetch.retryCount = MaxRetryCount
    /\ \E key \in Keys : apiObjects[key] # NoObject /\ apiserver[key] = NoObject
    /\ \E key \in Keys : apiObjects[key] = NoObject /\ apiserver[key] # NoObject

(***************************************************************************)
(* Trigger-queue controller: properties.                                   *)
(*                                                                         *)
(* A pass leaves the queue, the manifest states and the UIResources as it  *)
(* found them, so in the state right after a pass (queuePass.ran) they are *)
(* what the pass read.                                                     *)
(***************************************************************************)
\* The fields of the published document for 0-based position p.
NameField(p) == <<p, "name">>
ReasonCodeField(p) == <<p, "reason-code">>

\* The manifest has a resource record and the record is marked disabled.
MarkedDisabled(mn) ==
    uiResources[mn] # NoUIResource /\ uiResources[mn].disabledCount >= 1

Queued(mn) == \E i \in DOMAIN triggerQueue : triggerQueue[i] = mn

\* How many times the pass dispatched this action.
Dispatched(action) ==
    Cardinality({i \in DOMAIN queuePass.out : queuePass.out[i] = action})

\* The 0-based positions of the queue.
Positions == 0..(Len(triggerQueue) - 1)

\* The pass called CreateOrUpdate and it had something to write.
Wrote == queuePass.result \in {"created", "updated"}

\* C13: a pass dispatches one log action and one removal request for every
\* queued manifest whose UIResource is disabled, and none for any other
\* manifest.
C13_OneRemovalPerDisabledEntry ==
    queuePass.ran =>
        \A mn \in QueueManifests :
            /\ Dispatched(LogAction(mn)) = One(Queued(mn) /\ MarkedDisabled(mn))
            /\ Dispatched(RemoveFromTriggerQueueAction(mn)) =
                   One(Queued(mn) /\ MarkedDisabled(mn))

C13_Witness ==
    /\ queuePass.ran
    /\ triggerQueue = <<"a", "b">>
    /\ ~uiResources["a"].present
    /\ MarkedDisabled("b")
    /\ queuePass.out = <<LogAction("b"), RemoveFromTriggerQueueAction("b")>>

\* C14: the ConfigMap a pass builds, and stores when it publishes, names
\* every manifest of the queue, those the pass evicts included; a manifest
\* leaves it only in a pass after the store has reduced the removal.
C14_EvictedEntryStillPublished ==
    queuePass.ran =>
        /\ \A i \in DOMAIN queuePass.out :
               queuePass.out[i].type = "RemoveFromTriggerQueueAction"
                   => \E p \in Positions :
                          /\ triggerQueue[p + 1] = queuePass.out[i].name
                          /\ NameField(p) \in DOMAIN queuePass.cm.data
                          /\ queuePass.cm.data[NameField(p)] = queuePass.out[i].name
        /\ \A mn \in QueueManifests :
               Queued(mn) <=> \E p \in Positions :
                                 /\ NameField(p) \in DOMAIN queuePass.cm.data
                                 /\ queuePass.cm.data[NameField(p)] = mn
        /\ (Wrote /\ ~queuePass.failed) => configMap = queuePass.cm

\* A pass that evicts a manifest and publishes a ConfigMap that names it.
C14_Witness ==
    /\ queuePass.ran
    /\ Wrote /\ ~queuePass.failed
    /\ Len(queuePass.out) = 2
    /\ \E p \in Positions : /\ NameField(p) \in DOMAIN configMap.data
                            /\ configMap.data[NameField(p)] = queuePass.out[2].name

\* C15, as claimed: of two consecutive passes over the same queue, the first
\* of which writes the ConfigMap, the second does not write.
C15_OneWriteInTwoPasses ==
    queuePass.after \in {"wrote", "failed"} => ~Wrote

\* C15, amended: a pass that builds the ConfigMap it last published does not
\* call CreateOrUpdate, and of two consecutive passes over the same queue,
\* the first of which wrote the ConfigMap without error, the second does not
\* call it.
C15_NoWriteWhenPublished ==
    queuePass.ran =>
        /\ (~queuePass.lastUpdate.isNil
               /\ queuePass.cm.data = queuePass.lastUpdate.data)
             => queuePass.result = "skipped"
        /\ queuePass.after = "wrote" => queuePass.result = "skipped"

\* The second of two passes over a queue of two manifests.
C15_Witness ==
    /\ queuePass.after = "wrote"
    /\ queuePass.result = "skipped"
    /\ Len(triggerQueue) = 2

Present(names, map) == {i \in 1..Len(names) : names[i] \in DOMAIN map}

\* The largest member of a non-empty set of times.
Latest(times) == CHOOSE t \in times : \A u \in times : u <= t

\* The position of a file path in the sort order.
Rank(f) == CHOOSE k \in 1..Len(FileOrder) : FileOrder[k] = f

\* C17: LastStartEvent returns the button with the maximum click time among
\* the buttons named in the StartOnSpec (and present) that have been clicked
\* (a click time other than the zero time) at or after startAfter, together
\* with that click time; on equal click times the first of them in the order
\* of the spec is kept; it returns the zero time and no button when no
\* button has such a click.
C17_LastStartEventLatestValidClick ==
    call.fn = "LastStartEvent" =>
        LET names == call.startOn.uiButtons
            click(i) == call.buttons[names[i]].lastClickedAt
            valid == {i \in Present(names, call.buttons) :
                         click(i) # 0 /\ click(i) >= call.startOn.startAfter}
        IN  IF valid = {}
            THEN call.time = 0 /\ call.button = NoButton
            ELSE \E i \in valid :
                     /\ \A j \in valid : click(j) <= click(i)
                     /\ \A j \in valid : j < i => click(j) < click(i)
                     /\ call.button = names[i]
                     /\ call.time = click(i)

\* Two buttons clicked at the same valid time, and one clicked too early in
\* another call shape: here the tie, with the first of the spec returned.
C17_Witness ==
    /\ call.fn = "LastStartEvent"
    /\ call.startOn.uiButtons = <<"b2", "b1">>
    /\ call.startOn.startAfter = 1
    /\ DOMAIN call.buttons = {"b1", "b2"}
    /\ call.buttons["b1"].lastClickedAt = 2
    /\ call.buttons["b2"].lastClickedAt = 2
    /\ call.button = "b2"
    /\ call.time = 2

\* C18: LastRestartEvent returns as time the maximum over the last event
\* times of the referenced file watches and the click times of the
\* referenced buttons (the zero time when there is none); a button is
\* returned only when its click is strictly later than the last event time
\* of every referenced file watch; when the last event time of a file watch
\* is equal to or later than every click, no button is returned.
C18_LastRestartEventTimeAndButton ==
    call.fn = "LastRestartEvent" =>
        LET fws == call.restartOn.fileWatches
            bs == call.restartOn.uiButtons
            fwTimes == {call.fileWatches[fws[i]].lastEventTime :
                            i \in Present(fws, call.fileWatches)}
            clicks == {call.buttons[bs[i]].lastClickedAt :
                            i \in Present(bs, call.buttons)}
        IN  /\ call.time = Latest(fwTimes \cup clicks \cup {0})
            /\ call.button # NoButton =>
                   /\ \E i \in Present(bs, call.buttons) : bs[i] = call.button
                   /\ call.buttons[call.button].lastClickedAt = call.time
                   /\ \A t \in fwTimes : call.buttons[call.button].lastClickedAt > t
            /\ (\E t \in fwTimes : \A c \in clicks : t >= c) => call.button = NoButton

\* A click at the time of a file-watch event: no button is returned.
C18_Witness ==
    /\ call.fn = "LastRestartEvent"
    /\ call.restartOn.fileWatches = <<"f1", "f2">>
    /\ call.restartOn.uiButtons = <<"b1", "b2">>
    /\ DOMAIN call.fileWatches = {"f1", "f2"}
    /\ DOMAIN call.buttons = {"b1", "b2"}
    /\ call.fileWatches["f1"].lastEventTime = 1
    /\ call.fileWatches["f2"].lastEventTime = 2
    /\ call.buttons["b1"].lastClickedAt = 2
    /\ call.buttons["b2"].lastClickedAt = 1
    /\ call.time = 2
    /\ call.button = NoButton

\* The referenced buttons that clicks alone attribute: clicked, and no
\* referenced button clicked later.
LatestClicked ==
    LET bs == call.restartOn.uiButtons
    IN  {bs[i] : i \in {i \in Present(bs, call.buttons) :
                   /\ call.buttons[bs[i]].lastClickedAt # 0
                   /\ \A j \in Present(bs, call.buttons) :
                          call.buttons[bs[j]].lastClickedAt
                              <= call.buttons[bs[i]].lastClickedAt}}

\* The last event times of the referenced file watches that are later than
\* the click of button b.
LaterFileEvents(b) ==
    LET fws == call.restartOn.fileWatches
    IN  {call.fileWatches[fws[i]].lastEventTime :
             i \in {i \in Present(fws, call.fileWatches) :
                       call.fileWatches[fws[i]].lastEventTime
                           > call.buttons[b].lastClickedAt}}

\* C19, as stated: a file-watch event later than the click of the button
\* that the clicks attribute does not clear it; LastRestartEvent returns
\* that button.
C19_LaterFileEventKeepsButton ==
    call.fn = "LastRestartEvent" =>
        \A b \in LatestClicked :
            LaterFileEvents(b) # {} => call.button \in LatestClicked

\* C19, amended: a file-watch event later than the click of the button that
\* the clicks attribute clears it; LastRestartEvent returns no button, and
\* the time of the latest such file-watch event.
C19_LaterFileEventClearsButton ==
    call.fn = "LastRestartEvent" =>
        \A b \in LatestClicked :
            LaterFileEvents(b) # {} =>
                /\ call.button = NoButton
                /\ call.time = Latest(LaterFileEvents(b))

C19_Witness ==
    /\ call.fn = "LastRestartEvent"
    /\ call.restartOn.fileWatches = <<"f1">>
    /\ call.restartOn.uiButtons = <<"b1">>
    /\ "b1" \in DOMAIN call.buttons
    /\ "f1" \in DOMAIN call.fileWatches
    /\ call.buttons["b1"].lastClickedAt = 1
    /\ call.fileWatches["f1"].lastEventTime = 2
    /\ call.button = NoButton
    /\ call.time = 2

\* C20: for a RestartOnSpec that is set, FilesChanged returns the files seen
\* in the events later than lastBuild, at any position of the logs of the
\* file watches that the spec names and the map holds, and no other file,
\* each once and in sorted order.
C20_FilesChangedSinceLastBuild ==
    (call.fn = "FilesChanged" /\ ~call.restartOn.isNil) =>
        LET fws == call.restartOn.fileWatches
            sinceBuild ==
                {f \in {FileOrder[k] : k \in 1..Len(FileOrder)} :
                    \E i \in Present(fws, call.fileWatches) :
                        LET log == call.fileWatches[fws[i]].fileEvents
                        IN  \E n \in 1..Len(log) :
                                /\ log[n].time > call.lastBuild
                                /\ \E k \in 1..Len(log[n].seenFiles) :
                                       log[n].seenFiles[k] = f}
        IN  /\ ~call.panics
            /\ {call.files[k] : k \in 1..Len(call.files)} = sinceBuild
            /\ \A j, k \in 1..Len(call.files) :
                   j < k => Rank(call.files[j]) < Rank(call.files[k])

\* An event before lastBuild at the end of a log, behind a later one.
C20_Witness ==
    /\ call.fn = "FilesChanged"
    /\ call.restartOn.fileWatches = <<"f2", "f1">>
    /\ DOMAIN call.fileWatches = {"f1", "f2"}
    /\ call.lastBuild = 1
    /\ Len(call.fileWatches["f1"].fileEvents) = 2
    /\ call.fileWatches["f1"].fileEvents[1] = [time |-> 2, seenFiles |-> <<"c", "a">>]
    /\ call.fileWatches["f1"].fileEvents[2].time = 1
    /\ call.fileWatches["f2"].fileEvents = <<[time |-> 3, seenFiles |-> <<"a">>]>>
    /\ call.files = <<"a", "c">>

\* A list of names without the name n.
Without(names, n) == SelectSeq(names, LAMBDA x : x # n)

\* The names of a list that are no key of a map.
Missing(names, map) == {names[i] : i \in 1..Len(names)} \ DOMAIN map

\* C21: a name of a StartOnSpec or RestartOnSpec that the map of buttons or
\* file watches does not hold is skipped by LastStartEvent, LastRestartEvent
\* and FilesChanged: the call returns what it returns for the spec without
\* that name, and raises no error.
C21_MissingNamesSkipped ==
    /\ call.fn = "LastStartEvent" =>
           \A n \in Missing(call.startOn.uiButtons, call.buttons) :
               [time |-> call.time, button |-> call.button] =
                   LastStartEvent(
                       [call.startOn EXCEPT !.uiButtons = Without(@, n)],
                       call.buttons)
    /\ call.fn = "LastRestartEvent" =>
           /\ \A n \in Missing(call.restartOn.uiButtons, call.buttons) :
                  [time |-> call.time, button |-> call.button] =
                      LastRestartEvent(
                          [call.restartOn EXCEPT !.uiButtons = Without(@, n)],
                          call.fileWatches, call.buttons)
           /\ \A n \in Missing(call.restartOn.fileWatches, call.fileWatches) :
                  [time |-> call.time, button |-> call.button] =
                      LastRestartEvent(
                          [call.restartOn EXCEPT !.fileWatches = Without(@, n)],
                          call.fileWatches, call.buttons)
    /\ (call.fn = "FilesChanged" /\ ~call.restartOn.isNil) =>
           /\ ~call.panics
           /\ \A n \in Missing(call.restartOn.fileWatches, call.fileWatches) :
                  [panics |-> call.panics, files |-> call.files] =
                      FilesChanged(
                          [call.restartOn EXCEPT !.fileWatches = Without(@, n)],
                          call.fileWatches, call.lastBuild)

\* A missing file watch ahead of a present one, and a missing button ahead
\* of the button returned.
C21_Witness ==
    /\ call.fn = "LastRestartEvent"
    /\ call.restartOn.fileWatches = <<"f1", "f2">>
    /\ call.restartOn.uiButtons = <<"b2", "b1">>
    /\ DOMAIN call.fileWatches = {"f2"}
    /\ DOMAIN call.buttons = {"b1"}
    /\ call.fileWatches["f2"].lastEventTime = 2
    /\ call.buttons["b1"].lastClickedAt = 3
    /\ call.time = 3
    /\ call.button = "b1"

\* The set of the names of a list.
NamesOf(names) == {names[i] : i \in 1..Len(names)}

\* The names of a list in the order of their first occurrences.
FirstOccurrences(names) ==
    LET first == {i \in 1..Len(names) : \A j \in 1..(i - 1) : names[j] # names[i]}
        nth[k \in 0..Len(names)] ==
            IF k = 0 THEN 0
            ELSE IF \E i \in first : i > nth[k - 1]
                 THEN CHOOSE i \in first :
                          i > nth[k - 1] /\ \A j \in first : j > nth[k - 1] => i <= j
                 ELSE 0
    IN  [k \in 1..Cardinality(first) |-> names[nth[k]]]

\* What a strict resolver returns on the list of the names it looks up, the
\* k-th of them answered by call.answers[k]: the error of the first lookup
\* that fails and no map, or a map with an entry for every name.
StrictOn(looked) ==
    LET failed == {k \in 1..Len(looked) : call.answers[k] = "NotFound"}
    IN  IF failed = {}
        THEN /\ ~call.noMap
             /\ call.err = NoError
             /\ DOMAIN call.objects = NamesOf(looked)
        ELSE LET k == CHOOSE k \in failed : \A j \in failed : k <= j
             IN  /\ call.noMap
                 /\ call.objects = <<>>
                 /\ call.err = <<looked[k], "NotFound">>
                 /\ call.lookups = SubSeq(looked, 1, k)

\* C22: when a lookup fails, Buttons and FileWatches return its error and
\* no map; when none fails the map has one entry for every distinct name
\* referenced; Buttons looks a name up once, at its first occurrence, and
\* the map holds what that lookup answered; FileWatches on an absent
\* RestartOnSpec returns no map and no error without any lookup.
C22_ResolversStrict ==
    /\ call.fn = "Buttons" =>
           LET looked == FirstOccurrences(
                   (IF call.startOn.isNil THEN <<>> ELSE call.startOn.uiButtons)
                       \o (IF call.restartOn.isNil THEN <<>>
                           ELSE call.restartOn.uiButtons))
           IN  /\ StrictOn(looked)
               /\ ~call.noMap =>
                      /\ call.lookups = looked
                      /\ \A k \in 1..Len(looked) :
                             call.objects[looked[k]] = call.answers[k]
    /\ call.fn = "FileWatches" =>
           IF call.restartOn.isNil
           THEN call.lookups = <<>> /\ call.objects = <<>> /\ call.err = NoError
           ELSE StrictOn(call.restartOn.fileWatches)

\* A button named by both specs, looked up once while the apiserver changes
\* it, and a second button after it.
C22_Witness ==
    /\ call.fn = "Buttons"
    /\ ~call.startOn.isNil /\ call.startOn.uiButtons = <<"b1", "b1">>
    /\ ~call.restartOn.isNil /\ call.restartOn.uiButtons = <<"b1", "b2">>
    /\ call.answers[1] = "v1" /\ call.answers[2] = "v2" /\ call.answers[3] = "NotFound"
    /\ call.lookups = <<"b1", "b2">>
    /\ call.objects = [b1 |-> "v1", b2 |-> "v2"]
    /\ call.err = NoError

(***************************************************************************)
(* Properties of the read lock.                                            *)
(***************************************************************************)
\* The calls that leave the process: the apiserver write of the trigger
\* queue, the fetch of the spans and the run of the telemetry script.
ExternalCalls == {"CreateOrUpdate", "GetOutgoingSpans", "CombinedOutput"}

\* How many read locks a pass holds after the first n of its steps.
Held(steps, n) ==
    Cardinality({i \in 1..n : steps[i] = "RLockState"})
        - Cardinality({i \in 1..n : steps[i] = "RUnlockState"})

\* No step of the kinds given is made while the read lock is held, and the
\* pass ends with the lock released.
NoneUnderLock(steps, kinds) ==
    /\ \A i \in 1..Len(steps) : steps[i] \in kinds => Held(steps, i - 1) = 0
    /\ Held(steps, Len(steps)) = 0

\* C23: in every pass of the process-server controller, of the trigger-queue
\* controller and of the telemetry controller, every read lock taken is
\* released before an external call is made and before the pass ends.
C23_NoExternalCallUnderReadLock ==
    /\ NoneUnderLock(pass.steps, ExternalCalls)
    /\ NoneUnderLock(queuePass.steps, ExternalCalls)
    /\ NoneUnderLock(telemetryPass.steps, ExternalCalls)

\* A pass of the trigger-queue controller that took the lock twice, for the
\* eviction and for the snapshot, and then wrote the ConfigMap.
C23_Witness ==
    /\ queuePass.ran
    /\ queuePass.out # <<>>
    /\ queuePass.result = "updated"
    /\ Cardinality({i \in 1..Len(queuePass.steps) :
                       queuePass.steps[i] = "RLockState"}) = 2
    /\ queuePass.steps[Len(queuePass.steps)] = "CreateOrUpdate"

\* C29: every pass of the process-server controller and of the
\* trigger-queue controller, its eviction of disabled entries included,
\* releases the read lock before it dispatches an action: no Dispatch is
\* made while the pass holds the read lock.
C29_NoDispatchUnderReadLock ==
    /\ NoneUnderLock(pass.steps, {"Dispatch"})
    /\ NoneUnderLock(queuePass.steps, {"Dispatch"})

(***************************************************************************)
(* Process-server controller: further properties.                          *)
(***************************************************************************)
\* C24: a Cmd that ended with an error is replaced like any terminated Cmd:
\* in a pass where the Cmd that the listing reports for a server the
\* controller has created a Cmd for is errored, and the desired spec or
\* trigger time differs from what was created, the pass dispatches the
\* create of the replacement and no delete.
C24_ErroredCmdReplacedWithoutDelete ==
    \A m \in Manifests :
        ( /\ pass.ran /\ IsServer(m) /\ ~DesiredAsCreated(m)
          /\ PriorCmd(m) # NoCmd
          /\ ListedCmd(m) # NoName
          /\ cmds[ListedCmd(m)].status = "errored" )
            => OneCreateFor(m) /\ DeletesFor(m) = 0

\* The Cmd last created is listed as errored, and the pass replaces it.
C24_Witness ==
    \E m \in Manifests :
        /\ pass.ran /\ IsServer(m) /\ ~DesiredAsCreated(m)
        /\ PriorCmd(m) # NoCmd
        /\ ListedCmd(m) = PriorCmd(m).name
        /\ cmds[ListedCmd(m)].status = "errored"
        /\ OneCreateFor(m)
        /\ createdCmds[m].name # PriorCmd(m).name

(***************************************************************************)
(* Properties of the exit controller.  In the state right after a pass     *)
(* (exitPass.ran) exitTargets is what the pass read.                       *)
(***************************************************************************)
\* The manifests whose last completed build is as given.
WithBuild(build) == {mn \in ExitManifests :
                        exitTargets[mn].present /\ exitTargets[mn].build = build}

\* The manifests whose pod is in an error state.
WithPodInError == {mn \in ExitManifests :
                      exitTargets[mn].present /\ exitTargets[mn].pod = "ErrImagePull"}

\* The manifests whose runtime is not ready: a Job whose pod has not
\* succeeded, another workload without a ready (or succeeded) pod.
NotReady == {mn \in ExitManifests :
                /\ exitTargets[mn].present
                /\ IF exitTargets[mn].isJob
                   THEN exitTargets[mn].pod # "Completed"
                   ELSE exitTargets[mn].pod \notin {"Running", "Completed"}}

SomeManifest == \E mn \in ExitManifests : exitTargets[mn].present

C27_UpdateCarriesStoredVersion ==
    objPass.ran =>
        \A i \in DOMAIN objPass.calls :
            objPass.calls[i].op = "update" =>
                LET key == objPass.calls[i].key
                IN  /\ objPass.before[key] # NoObject
                    /\ objPass.calls[i].obj.spec = apiObjects[key].spec
                    /\ objPass.calls[i].obj.resourceVersion
                           = objPass.before[key].resourceVersion

\* An update of a stored object, accepted by the store as its next version.
C27_Witness ==
    /\ objPass.ran
    /\ \E i \in DOMAIN objPass.calls :
           LET key == objPass.calls[i].key
           IN  /\ objPass.calls[i].op = "update"
               /\ key \notin objPass.failing
               /\ objPass.before[key].resourceVersion = 1
               /\ objPass.before[key].spec # apiObjects[key].spec
               /\ apiserver[key].resourceVersion = 2
               /\ apiserver[key].spec = apiObjects[key].spec

(***************************************************************************)
(* Process-server controller: the create requests.                         *)
(***************************************************************************)
\* The servers for which the pass dispatched a create request.
Created == {m \in Manifests : CreatesFor(m) > 0}

\* The create request the pass dispatched for m.
CreateOf(m) ==
    pass.out[m][CHOOSE i \in DOMAIN pass.out[m] :
                    pass.out[m][i].type = "CmdCreateAction"]

\* The names of the Cmds the controller has created so far, as far as the
\* state keeps them: the Cmds of the store and the creates not yet reduced.
KnownCmdNames ==
    DOMAIN cmds \cup
    {actions[i].name : i \in {j \in DOMAIN actions :
                                  actions[j].type = "CmdCreateAction"}}

\* C28: one controller numbers the Cmds it creates with a counter that
\* grows by one with every create, across all servers: no Cmd created so
\* far has a number above the counter, and the creates of a pass carry the
\* numbers that follow the counter the pass began with, each once, so each
\* name differs from every name created before; a create carries the owner
\* reference to its server, and the pass records for that server the Cmd,
\* the desired trigger time, and that no termination is pending.
C28_CreateRequestsFresh ==
    /\ \A n \in KnownCmdNames : n[2] <= cmdCount
    /\ pass.ran =>
           /\ cmdCount = pass.before.cmdCount + Cardinality(Created)
           /\ {CreateOf(m).name[2] : m \in Created}
                  = (pass.before.cmdCount + 1)..cmdCount
           /\ \A m \in Created :
                  /\ CreatesFor(m) = 1
                  /\ CreateOf(m).name[1] = m
                  /\ CreateOf(m).owner = m
                  /\ createdCmds[m].name = CreateOf(m).name
                  /\ createdTriggerTime[m] = targets[m].deployTime
                  /\ ~deletingCmds[m]

\* A pass that creates a Cmd for each of two servers, after an earlier
\* create, one of them replacing a Cmd whose termination was pending.
C28_Witness ==
    /\ pass.ran
    /\ pass.before.cmdCount >= 1
    /\ Cardinality(Created) = 2
    /\ \E m \in Created : pass.before.deletingCmds[m]

\* The owner-scoped actual set equals the desired set in names and specs.
Converged ==
    \A key \in Keys :
        LET actual == IF apiserver[key] # NoObject /\ apiserver[key].owned
                      THEN apiserver[key] ELSE NoObject
        IN  /\ (actual = NoObject) <=> (apiObjects[key] = NoObject)
            /\ actual.spec = apiObjects[key].spec

\* C30: the calls of a pass that succeeded stay applied when other calls of
\* the pass fail, and the keys of the failed calls are left as they were; a
\* pass whose calls all succeed, run first or after passes that failed,
\* leaves the owner-scoped actual set equal to the desired set in names and
\* specs; a pass that follows it with the same desired set makes no call.
C30_ConvergesAfterFailures ==
    objPass.ran =>
        /\ \A i \in DOMAIN objPass.calls :
               LET key == objPass.calls[i].key
               IN  IF key \in objPass.failing
                   THEN apiserver[key] = objPass.before[key]
                   ELSE IF objPass.calls[i].op = "delete"
                   THEN apiserver[key] = NoObject
                   ELSE /\ apiserver[key].spec = apiObjects[key].spec
                        /\ apiserver[key].owned
        /\ objPass.err.isNil => Converged
        /\ objPass.afterCalls >= 0 => objPass.calls = <<>> /\ Converged

\* A pass whose calls succeed, after a pass of which one call had succeeded
\* and another had failed: it makes the calls still missing and converges.
C30_Witness ==
    /\ objPass.ran
    /\ objPass.afterFailed >= 1
    /\ objPass.calls # <<>>
    /\ objPass.err.isNil
    /\ Converged
    /\ \E key \in Keys : apiObjects[key] # NoObject
    /\ \E key \in Keys :
           /\ objPass.before[key] # NoObject
           /\ \A i \in DOMAIN objPass.calls : objPass.calls[i].key # key

(***************************************************************************)
(* Trigger-queue controller: eviction across passes.                       *)
(***************************************************************************)
\* The published document names the manifest at some position.
Listed(mn) ==
    \E k \in DOMAIN configMap.data : k[2] = "name" /\ configMap.data[k] = mn

TriggerTimeAloneChanged(m) ==
    /\ PriorCmd(m) # NoCmd
    /\ PriorCmd(m).spec.args = targets[m].serveCmd.args
    /\ pass.before.createdTriggerTime[m] # targets[m].deployTime

\* C32, as claimed: a pass dispatches nothing for a server only if the
\* desired spec and trigger time are those recorded at the last create.
C32_QuietOnlyIfSpecAndTimeEqual ==
    \A m \in Manifests :
        (pass.ran /\ IsServer(m) /\ pass.out[m] = <<>>) => DesiredAsCreated(m)

\* C32, amended: a pass that finds a Cmd listed for a server it has created
\* one for, and has no delete request outstanding for it, dispatches nothing
\* for the server only if the desired spec and trigger time are those
\* recorded at the last create; when the trigger time alone differs, the
\* pass dispatches one delete naming the listed Cmd if that Cmd is not
\* terminal, and one create if it is terminal.
C32_QuietOnlyIfEqualOrSequenceInProgress ==
    \A m \in Manifests :
        (pass.ran /\ IsServer(m) /\ PriorCmd(m) # NoCmd /\ ListedCmd(m) # NoName)
            => /\ (~pass.before.deletingCmds[m] /\ pass.out[m] = <<>>)
                     => DesiredAsCreated(m)
               /\ (TriggerTimeAloneChanged(m)
                     /\ ~IsTerminated(cmds[ListedCmd(m)].status)
                     /\ ~pass.before.deletingCmds[m])
                     => pass.out[m] = <<CmdDeleteAction(ListedCmd(m))>>
               /\ (TriggerTimeAloneChanged(m)
                     /\ IsTerminated(cmds[ListedCmd(m)].status))
                     => OneCreateFor(m)

\* The create that ends a replace sequence started by a new trigger time:
\* the Cmd last created had the desired spec, a delete was dispatched for it,
\* it is listed as terminal, and the pass creates its successor.
C32_Witness ==
    \E m \in Manifests :
        /\ pass.ran /\ IsServer(m)
        /\ TriggerTimeAloneChanged(m)
        /\ pass.before.deletingCmds[m]
        /\ ListedCmd(m) = PriorCmd(m).name
        /\ cmds[ListedCmd(m)].status = "terminated"
        /\ OneCreateFor(m)

\* The controller's bookkeeping for m after the pass is what it was before.
BookkeepingKept(m) ==
    /\ createdCmds[m] = pass.before.createdCmds[m]
    /\ createdTriggerTime[m] = pass.before.createdTriggerTime[m]
    /\ deletingCmds[m] = pass.before.deletingCmds[m]

\* C33: a pass that finds no Cmd name listed for a server it has created a
\* Cmd for dispatches nothing for the server and leaves its bookkeeping as
\* it is, whatever the desired spec and trigger time are.
C33_NothingWhileCreateInFlight ==
    \A m \in Manifests :
        (pass.ran /\ IsServer(m) /\ PriorCmd(m) # NoCmd /\ ListedCmd(m) = NoName)
            => pass.out[m] = <<>> /\ BookkeepingKept(m)

\* A pass while the create is still to be reduced, after the desired spec
\* and trigger time both changed.
C33_Witness ==
    \E m \in Manifests :
        /\ pass.ran /\ IsServer(m)
        /\ PriorCmd(m) # NoCmd /\ ListedCmd(m) = NoName
        /\ \E i \in DOMAIN actions : actions[i] = CmdCreateAction(m, PriorCmd(m))
        /\ PriorCmd(m).spec.args # targets[m].serveCmd.args
        /\ pass.before.createdTriggerTime[m] # targets[m].deployTime
        /\ pass.out[m] = <<>>

\* C34: no pass returns as up to date (desired spec and trigger time those
\* of the Cmd last created, nothing dispatched) for a server for whose last
\* created Cmd the controller has dispatched a delete request.
C34_NotUpToDateByDeletedCmd ==
    \A m \in Manifests :
        (pass.ran /\ IsServer(m) /\ pass.before.deletingCmds[m])
            => ~(DesiredAsCreated(m) /\ pass.out[m] = <<>>)

\* C35: every delete request a pass dispatches for a server names the Cmd
\* the controller had last created for the server when the pass began.
C35_DeleteNamesLastCreated ==
    \A m \in Manifests :
        pass.ran =>
            \A i \in DOMAIN pass.out[m] :
                pass.out[m][i].type = "CmdDeleteAction"
                    => pass.out[m][i].name = PriorCmd(m).name

\* C36: a pass that finds the Cmd last created for a server in a terminal
\* status, no delete having been dispatched for it, while the desired spec
\* and trigger time are those recorded at its create, dispatches nothing
\* for the server and leaves its bookkeeping as it is.
C36_ExitedCmdNotReplaced ==
    \A m \in Manifests :
        ( /\ pass.ran /\ IsServer(m) /\ DesiredAsCreated(m)
          /\ PriorCmd(m).name \in DOMAIN cmds
          /\ cmds[PriorCmd(m).name].status \in {"terminated", "errored"}
          /\ ~pass.before.deletingCmds[m] )
            => pass.out[m] = <<>> /\ BookkeepingKept(m)

\* A second pass over a server whose Cmd ended with an error, the listing
\* reporting that Cmd, the desired state unchanged since the pass before.
C36_Witness ==
    \E m \in Manifests :
        /\ pass.ran /\ IsServer(m) /\ DesiredAsCreated(m)
        /\ pass.unchanged[m]
        /\ ListedCmd(m) = PriorCmd(m).name
        /\ cmds[ListedCmd(m)].status = "errored"
        /\ ~pass.before.deletingCmds[m]
        /\ pass.out[m] = <<>>

\* C37: a pass dispatches nothing for a manifest that is not in the desired
\* list of servers (no serve command, or never deployed), and leaves the
\* bookkeeping of that name as it is: the Cmd it created for the name
\* before gets no delete request.
C37_NothingForDroppedServer ==
    \A m \in Manifests :
        (pass.ran /\ ~IsServer(m))
            => /\ pass.out[m] = <<>>
               /\ BookkeepingKept(m)
               /\ \A n \in Manifests : \A i \in DOMAIN pass.out[n] :
                      pass.out[n][i].type = "CmdDeleteAction"
                          => pass.out[n][i].name \notin OwnedBy(m)

\* The pass right after a server dropped out of the desired list while the
\* Cmd created for it runs.
C37_Witness ==
    \E m \in Manifests :
        /\ pass.ran /\ ~IsServer(m)
        /\ ~pass.unchanged[m]
        /\ PriorCmd(m) # NoCmd
        /\ LiveCmds(m) = {PriorCmd(m).name}
        /\ pass.out[m] = <<>>
        /\ createdCmds[m] = PriorCmd(m)

\* C38: a pass whose write fails (OnChange returns the error) leaves
\* lastUpdate as it was, and the pass that follows it over the same queue
\* calls CreateOrUpdate again; lastUpdate changes only in a pass that called
\* CreateOrUpdate without error, and a pass that starts without a
\* lastUpdate always calls it.
C38_FailedWriteKeepsBaseline ==
    queuePass.ran =>
        /\ queuePass.failed => lastUpdate = queuePass.lastUpdate
        /\ queuePass.after = "failed" => queuePass.result # "skipped"
        /\ lastUpdate # queuePass.lastUpdate
               => queuePass.result # "skipped" /\ ~queuePass.failed
        /\ queuePass.lastUpdate.isNil => queuePass.result # "skipped"

\* The pass after a failed write over a queue of one manifest: it writes
\* the document that could not be written, and takes it as the baseline.
C38_Witness ==
    /\ queuePass.ran
    /\ queuePass.after = "failed"
    /\ Len(triggerQueue) = 1
    /\ Wrote /\ ~queuePass.failed
    /\ lastUpdate = queuePass.cm
    /\ lastUpdate # queuePass.lastUpdate
    /\ configMap = queuePass.cm

\* The removal requests for mn that the store has not reduced yet.
PendingRemovals(mn) ==
    {i \in DOMAIN queueActions : queueActions[i] = RemoveFromTriggerQueueAction(mn)}

\* The removal requests for mn that were pending when the pass began.
PendingBefore(mn) ==
    {i \in PendingRemovals(mn) : i <= Len(queueActions) - Len(queuePass.out)}

\* C39, as claimed: a queue entry gets at most one removal request over all
\* passes.  (A request stays pending until the store reduces it, and
\* reducing it takes the entry out of the queue: a second request for an
\* entry shows as two pending requests for its manifest.)
C39_OneRemovalPerEntryAcrossPasses ==
    \A mn \in QueueManifests : Cardinality(PendingRemovals(mn)) <= 1

\* C39, amended: a pass dispatches at most one removal request and one
\* notification for a manifest, and it dispatches one of each for a disabled
\* manifest that is still queued while an earlier removal request for it is
\* pending.
C39_OneRemovalPerEntryPerPass ==
    queuePass.ran =>
        \A mn \in QueueManifests :
            /\ Dispatched(RemoveFromTriggerQueueAction(mn)) <= 1
            /\ Dispatched(LogAction(mn)) <= 1
            /\ (Queued(mn) /\ MarkedDisabled(mn) /\ PendingBefore(mn) # {})
                  => /\ Dispatched(RemoveFromTriggerQueueAction(mn)) = 1
                     /\ Dispatched(LogAction(mn)) = 1

\* A pass over a queue whose disabled entry already has a removal request
\* pending: the entry gets a second one.
C39_Witness ==
    \E mn \in QueueManifests :
        /\ queuePass.ran
        /\ Queued(mn) /\ MarkedDisabled(mn)
        /\ PendingBefore(mn) # {}
        /\ Dispatched(RemoveFromTriggerQueueAction(mn)) = 1
        /\ Cardinality(PendingRemovals(mn)) = 2

(***************************************************************************)
(* Trigger computation: an absent RestartOnSpec.                           *)
(***************************************************************************)
\* C40: FilesChanged called without a RestartOnSpec returns the empty list
\* and does not fail, as LastRestartEvent and FileWatches do.
C40_FilesChangedToleratesNoSpec ==
    /\ (call.fn = "FilesChanged" /\ call.restartOn.isNil)
           => ~call.panics /\ call.files = <<>>
    /\ (call.fn = "LastRestartEvent" /\ call.restartOn.isNil)
           => ~call.panics /\ call.time = 0 /\ call.button = NoButton
    /\ (call.fn = "FileWatches" /\ call.restartOn.isNil)
           => ~call.panics /\ call.err = NoError

====
